---- MODULE Spec2Model ----
(***************************************************************************)
(* A model of bpybuild's source resolution and checkout orchestration      *)
(* (src/bpybuild/sources.py).                                               *)
(*                                                                         *)
(* Python strings are sequences of one-character strings, so that the      *)
(* string handling of the code (replace, basename, casefold, the regular   *)
(* expressions) is computed and not assumed.  An optional value is a       *)
(* sequence: None is the empty sequence, a set value x is <<x>>.            *)
(***************************************************************************)
EXTENDS Integers, Sequences, FiniteSets, TLC

----------------------------------------------------------------------------
(* Python str operations *)

None == <<>>

Some(x) == <<x>>

Range(s) == {s[i] : i \in DOMAIN s}

UpperChars == <<"A","B","C","D","E","F","G","H","I","J","K","L","M",
                "N","O","P","Q","R","S","T","U","V","W","X","Y","Z">>

LowerChars == <<"a","b","c","d","e","f","g","h","i","j","k","l","m",
                "n","o","p","q","r","s","t","u","v","w","x","y","z">>

DigitChars == <<"0","1","2","3","4","5","6","7","8","9">>

IsDigit(c) == c \in Range(DigitChars)

\* int("7") = 7
DigitVal(c) == (CHOOSE i \in DOMAIN DigitChars : DigitChars[i] = c) - 1

\* str.casefold() of one character
LowerChar(c) ==
    IF c \in Range(UpperChars)
    THEN LowerChars[CHOOSE i \in DOMAIN UpperChars : UpperChars[i] = c]
    ELSE c

\* str.casefold() leaving every letter as it is
Casefold_identity(s) == s

\* str.casefold()
Casefold(s) == [i \in DOMAIN s |-> LowerChar(s[i])]

\* s[i:] (1-based i)
From(s, i) == SubSeq(s, i, Len(s))

\* str.startswith
StartsWith(s, p) == Len(s) >= Len(p) /\ SubSeq(s, 1, Len(p)) = p

\* str.endswith
EndsWith(s, p) == Len(s) >= Len(p) /\ From(s, Len(s) - Len(p) + 1) = p

\* the 1-based places where p occurs in s
Occurrences(s, p) ==
    {i \in 1..(Len(s) - Len(p) + 1) : SubSeq(s, i, i + Len(p) - 1) = p}

\* `p in s`
Contains(s, p) == Occurrences(s, p) # {}

Max(S) == CHOOSE x \in S : \A y \in S : y <= x

Min(S) == CHOOSE x \in S : \A y \in S : x <= y

\* str.replace(old, new): every non-overlapping occurrence, left to right
RECURSIVE Replace(_, _, _)
Replace(s, old, new) ==
    IF s = <<>> THEN <<>>
    ELSE IF StartsWith(s, old)
         THEN new \o Replace(From(s, Len(old) + 1), old, new)
         ELSE <<Head(s)>> \o Replace(Tail(s), old, new)

\* re.split(r"[seps]", s) and str.split(sep) for one-character separators
RECURSIVE SplitOn(_, _)
SplitOn(s, seps) ==
    LET cuts == {i \in DOMAIN s : s[i] \in seps}
    IN  IF cuts = {} THEN <<s>>
        ELSE <<SubSeq(s, 1, Min(cuts) - 1)>> \o SplitOn(From(s, Min(cuts) + 1), seps)

\* sep.join(parts)
RECURSIVE Join(_, _)
Join(parts, sep) ==
    IF parts = <<>> THEN <<>>
    ELSE IF Len(parts) = 1 THEN parts[1]
         ELSE parts[1] \o sep \o Join(Tail(parts), sep)

\* s.split(sep)[-1] for a multi-character sep: what follows its last occurrence
LastPiece(s, sep) ==
    IF Contains(s, sep) THEN From(s, Max(Occurrences(s, sep)) + Len(sep)) ELSE s

\* int(s) of a run of digits
RECURSIVE ToInt(_)
ToInt(s) ==
    IF s = <<>> THEN 0
    ELSE 10 * ToInt(SubSeq(s, 1, Len(s) - 1)) + DigitVal(s[Len(s)])

\* str(n) of a natural number
RECURSIVE IntToStr(_)
IntToStr(n) ==
    IF n < 10 THEN <<DigitChars[n + 1]>>
    ELSE IntToStr(n \div 10) \o <<DigitChars[(n % 10) + 1]>>

----------------------------------------------------------------------------
(* posixpath / os.path *)

\* posixpath.basename, os.path.basename
Basename(p) ==
    LET slashes == {i \in DOMAIN p : p[i] = "/"}
    IN  IF slashes = {} THEN p ELSE From(p, Max(slashes) + 1)

\* os.path.normpath on the paths the code hands it: empty components and a
\* trailing slash go
Normpath(p) ==
    LET parts == SelectSeq(SplitOn(p, {"/"}), LAMBDA c : c # <<>>)
    IN  (IF StartsWith(p, <<"/">>) THEN <<"/">> ELSE <<>>) \o Join(parts, <<"/">>)

\* posixpath.join(a, b)
PathJoin(a, b) ==
    IF StartsWith(b, <<"/">>) THEN b
    ELSE IF a = <<>> \/ EndsWith(a, <<"/">>) THEN a \o b
         ELSE a \o <<"/">> \o b

----------------------------------------------------------------------------
(* pkg_resources.parse_version: the PEP 440 grammar on the tag vocabulary of
   the two remotes: an optional "v", the dotted release, an optional
   pre-release marker.  Epoch, post-release, development and local segments
   occur in no tag of either remote; a string with one parses as legacy here. *)

\* the pre-release spellings of the grammar with the letter each normalises to
PreSpellings ==
    { << <<"a">>, <<"a">> >>, << <<"b">>, <<"b">> >>,
      << <<"c">>, <<"r","c">> >>, << <<"r","c">>, <<"r","c">> >>,
      << <<"a","l","p","h","a">>, <<"a">> >>, << <<"b","e","t","a">>, <<"b">> >>,
      << <<"p","r","e">>, <<"r","c">> >>,
      << <<"p","r","e","v","i","e","w">>, <<"r","c">> >> }

PreSeparators == {"-", "_", "."}

\* the first place at or after i that holds no digit
DigitRunEnd(s, i) ==
    Min({j \in i..(Len(s) + 1) : j = Len(s) + 1 \/ ~IsDigit(s[j])})

\* the release segment starting at i: its numbers and the place after it
RECURSIVE ReleaseFrom(_, _)
ReleaseFrom(s, i) ==
    LET e == DigitRunEnd(s, i)
        n == ToInt(SubSeq(s, i, e - 1))
    IN  IF e + 1 <= Len(s) /\ s[e] = "." /\ IsDigit(s[e + 1])
        THEN LET r == ReleaseFrom(s, e + 1)
             IN  [rel |-> <<n>> \o r.rel, next |-> r.next]
        ELSE [rel |-> <<n>>, next |-> e]

\* Version._key compares the release without its trailing zeros
RECURSIVE StripTrailingZeros(_)
StripTrailingZeros(rel) ==
    IF rel # <<>> /\ rel[Len(rel)] = 0
    THEN StripTrailingZeros(SubSeq(rel, 1, Len(rel) - 1))
    ELSE rel

SkipSeparator(s) == IF s # <<>> /\ s[1] \in PreSeparators THEN Tail(s) ELSE s

\* the spellings that make `rest` a whole pre-release segment
PreMatches(rest) ==
    {w \in PreSpellings :
        /\ StartsWith(SkipSeparator(rest), w[1])
        /\ \A c \in Range(SkipSeparator(From(SkipSeparator(rest), Len(w[1]) + 1))) :
              IsDigit(c)}

LegacyVersion(s) == [release |-> <<>>, pre |-> None, legacy |-> s]

parse_version(raw) ==
    LET s     == Casefold(raw)
        start == IF StartsWith(s, <<"v">>) THEN 2 ELSE 1
    IN  IF start > Len(s) \/ ~IsDigit(s[start]) THEN LegacyVersion(raw)
        ELSE LET r    == ReleaseFrom(s, start)
                 rest == From(s, r.next)
             IN  IF rest = <<>>
                 THEN [release |-> StripTrailingZeros(r.rel), pre |-> None,
                       legacy |-> <<>>]
                 ELSE IF PreMatches(rest) = {} THEN LegacyVersion(raw)
                 ELSE LET w == CHOOSE x \in PreMatches(rest) : TRUE
                          n == ToInt(SkipSeparator(
                                   From(SkipSeparator(rest), Len(w[1]) + 1)))
                      IN  [release |-> StripTrailingZeros(r.rel),
                           pre |-> Some([letter |-> w[2], n |-> n]),
                           legacy |-> <<>>]

\* str(version): the normalised text of a version
VersionStr(v) ==
    IF v.legacy # <<>> THEN v.legacy
    ELSE Join([i \in DOMAIN v.release |-> IntToStr(v.release[i])], <<".">>)
         \o (IF v.pre = None THEN <<>>
             ELSE v.pre[1].letter \o IntToStr(v.pre[1].n))

\* tuple comparison of two releases: the first place that differs decides, a
\* proper prefix is the smaller
ReleaseLess(r, q) ==
    \E k \in 1..(Len(q)) :
        /\ \A j \in 1..(k - 1) : j <= Len(r) /\ r[j] = q[j]
        /\ \/ k = Len(r) + 1
           \/ k <= Len(r) /\ r[k] < q[k]

\* the pre-release letters in str order
PreRank(letter) ==
    IF letter = <<"a">> THEN 1 ELSE IF letter = <<"b">> THEN 2 ELSE 3

\* comparison of the pre-release parts of Version._key: a version without a
\* pre-release marker has Infinity there
PreLess(p, q) ==
    IF p = None THEN FALSE
    ELSE IF q = None THEN TRUE
    ELSE \/ PreRank(p[1].letter) < PreRank(q[1].letter)
         \/ PreRank(p[1].letter) = PreRank(q[1].letter) /\ p[1].n < q[1].n

\* Version.__lt__ taking a final release for the least of its pre-releases
Version_lt_final_first(a, b) ==
    \/ ReleaseLess(a.release, b.release)
    \/ a.release = b.release /\ PreLess(b.pre, a.pre)

\* Version.__lt__ on two versions of the PEP 440 grammar: the comparison of
\* their keys (release without trailing zeros, pre-release)
Version_lt(a, b) ==
    \/ ReleaseLess(a.release, b.release)
    \/ a.release = b.release /\ PreLess(a.pre, b.pre)

----------------------------------------------------------------------------
(* SvnOSPlatform: one platform bundle of a library tag *)

S_android == <<"a","n","d","r","o","i","d">>

S_darwin == <<"d","a","r","w","i","n">>

S_linux == <<"l","i","n","u","x">>

S_win == <<"w","i","n">>

S_64 == <<"6","4">>

S_vc == <<"v","c">>

S_python == <<"p","y","t","h","o","n">>

OS_Android == <<"A","n","d","r","o","i","d">>

OS_Darwin == <<"D","a","r","w","i","n">>

OS_Linux == <<"L","i","n","u","x">>

OS_Windows == <<"W","i","n","d","o","w","s">>

Bits32 == 32

Bits64 == 64

DarwinMinTokens == 4

\* SvnOSPlatform.__init__ splitting a darwin name on '-' alone
SvnOSPlatform_dash_only(svn_url) ==
    LET svn_name == Basename(svn_url)
        folded   == Casefold(svn_name)
        tokens   == SplitOn(svn_name, {"-"})
        blank    == [url |-> svn_url, svn_name |-> svn_name, os_name |-> None,
                     os_version |-> None, processor |-> None, bitness |-> None,
                     build_environment |-> None]
    IN  IF StartsWith(folded, Casefold(S_android))
        THEN [blank EXCEPT !.os_name = Some(OS_Android)]
        ELSE IF StartsWith(folded, Casefold(S_darwin))
        THEN IF Len(tokens) >= DarwinMinTokens
             THEN [blank EXCEPT
                     !.os_name = Some(OS_Darwin),
                     !.os_version = Some(parse_version(
                         Join(SubSeq(tokens, 2, Len(tokens) - 1), <<".">>))),
                     !.processor = Some(tokens[Len(tokens)])]
             ELSE [blank EXCEPT !.os_name = Some(OS_Darwin)]
        ELSE IF StartsWith(folded, Casefold(S_linux))
        THEN [blank EXCEPT !.os_name = Some(OS_Linux)]
        ELSE IF StartsWith(folded, Casefold(S_win))
        THEN [blank EXCEPT
                !.os_name = Some(OS_Windows),
                !.bitness = IF Contains(folded, Casefold(S_64))
                            THEN Some(Bits64) ELSE Some(Bits32),
                !.build_environment =
                    IF Contains(folded, Casefold(S_vc))
                    THEN Some(S_vc \o LastPiece(svn_name, S_vc))
                    ELSE None]
        ELSE blank

\* SvnOSPlatform.__init__ reading the bitness of a linux name as well
SvnOSPlatform_linux_bitness(svn_url) ==
    LET svn_name == Basename(svn_url)
        folded   == Casefold(svn_name)
        tokens   == SplitOn(svn_name, {".", "-"})
        blank    == [url |-> svn_url, svn_name |-> svn_name, os_name |-> None,
                     os_version |-> None, processor |-> None, bitness |-> None,
                     build_environment |-> None]
    IN  IF StartsWith(folded, Casefold(S_android))
        THEN [blank EXCEPT !.os_name = Some(OS_Android)]
        ELSE IF StartsWith(folded, Casefold(S_darwin))
        THEN IF Len(tokens) >= DarwinMinTokens
             THEN [blank EXCEPT
                     !.os_name = Some(OS_Darwin),
                     !.os_version = Some(parse_version(
                         Join(SubSeq(tokens, 2, Len(tokens) - 1), <<".">>))),
                     !.processor = Some(tokens[Len(tokens)])]
             ELSE [blank EXCEPT !.os_name = Some(OS_Darwin)]
        ELSE IF StartsWith(folded, Casefold(S_linux))
        THEN [blank EXCEPT
                !.os_name = Some(OS_Linux),
                !.bitness = IF Contains(folded, Casefold(S_64))
                            THEN Some(Bits64) ELSE Some(Bits32)]
        ELSE IF StartsWith(folded, Casefold(S_win))
        THEN [blank EXCEPT
                !.os_name = Some(OS_Windows),
                !.bitness = IF Contains(folded, Casefold(S_64))
                            THEN Some(Bits64) ELSE Some(Bits32),
                !.build_environment =
                    IF Contains(folded, Casefold(S_vc))
                    THEN Some(S_vc \o LastPiece(svn_name, S_vc))
                    ELSE None]
        ELSE blank

\* SvnOSPlatform.__init__
SvnOSPlatform(svn_url) ==
    LET svn_name == Basename(svn_url)
        folded   == Casefold(svn_name)
        tokens   == SplitOn(svn_name, {".", "-"})
        blank    == [url |-> svn_url, svn_name |-> svn_name, os_name |-> None,
                     os_version |-> None, processor |-> None, bitness |-> None,
                     build_environment |-> None]
    IN  IF StartsWith(folded, Casefold(S_android))
        THEN [blank EXCEPT !.os_name = Some(OS_Android)]
        ELSE IF StartsWith(folded, Casefold(S_darwin))
        THEN IF Len(tokens) >= DarwinMinTokens
             THEN [blank EXCEPT
                     !.os_name = Some(OS_Darwin),
                     !.os_version = Some(parse_version(
                         Join(SubSeq(tokens, 2, Len(tokens) - 1), <<".">>))),
                     !.processor = Some(tokens[Len(tokens)])]
             ELSE [blank EXCEPT !.os_name = Some(OS_Darwin)]
        ELSE IF StartsWith(folded, Casefold(S_linux))
        THEN [blank EXCEPT !.os_name = Some(OS_Linux)]
        ELSE IF StartsWith(folded, Casefold(S_win))
        THEN [blank EXCEPT
                !.os_name = Some(OS_Windows),
                !.bitness = IF Contains(folded, Casefold(S_64))
                            THEN Some(Bits64) ELSE Some(Bits32),
                !.build_environment =
                    IF Contains(folded, Casefold(S_vc))
                    THEN Some(S_vc \o LastPiece(svn_name, S_vc))
                    ELSE None]
        ELSE blank

\* the places of `name` where a digit, an optional dot and a digit stand,
\* whatever stands before them
PythonMatches_any_prefix(name) ==
    {i \in DOMAIN name :
        /\ IsDigit(name[i])
        /\ \/ i + 1 <= Len(name) /\ IsDigit(name[i + 1])
           \/ i + 2 <= Len(name) /\ name[i + 1] = "." /\ IsDigit(name[i + 2])}

\* the places of `name` where PYTHON_PATTERN matches: a digit, an optional
\* dot and a digit, right after "python"
PythonMatches(name) ==
    {i \in DOMAIN name :
        /\ i > Len(S_python)
        /\ SubSeq(name, i - Len(S_python), i - 1) = S_python
        /\ IsDigit(name[i])
        /\ \/ i + 1 <= Len(name) /\ IsDigit(name[i + 1])
           \/ i + 2 <= Len(name) /\ name[i + 1] = "." /\ IsDigit(name[i + 2])}

\* re.search(PYTHON_REGEX, name): the groups of the leftmost match
PythonSearch(name) ==
    IF PythonMatches(name) = {} THEN None
    ELSE LET i == Min(PythonMatches(name))
         IN  Some(<<DigitVal(name[i]),
                    IF IsDigit(name[i + 1]) THEN DigitVal(name[i + 1])
                    ELSE DigitVal(name[i + 2])>>)

----------------------------------------------------------------------------
(* The two remotes.  `remote.git` is the set of tag names of the git remote;
   `remote.svn` maps each directory of the svn remote's /tags to its lib
   listing: [ok, bundles], ok false when listing lib raises SvnException (the
   path is missing or unreachable), each bundle a [name, py] with py the
   listing of its python/lib: [ok, entries], each entry a [name, kind]. *)

SVN_BASE_URL == <<"h","t","t","p","s",":","/","/","s","v","n",".","b","l","e","n","d","e","r",".","o","r","g","/","s","v","n","r","o","o","t","/","b","f","-","b","l","e","n","d","e","r">>

S_tags == <<"t","a","g","s">>

S_lib == <<"l","i","b">>

S_blender == <<"b","l","e","n","d","e","r">>

S_Studio == <<"S","t","u","d","i","o">>

S_peeled == <<"^","{","}">>

S_refs_tags == <<"r","e","f","s","/","t","a","g","s","/">>

S_sha == <<"0","a","1","b">>

ExcludedLibNames == {<<"b","e","n","c","h","m","a","r","k","s">>, <<"p","a","c","k","a","g","e">>, <<"p","y","t","h","o","n">>, <<"t","e","s","t","s">>}

Map(s, F(_)) == [i \in DOMAIN s |-> F(s[i])]

\* the members of set S in the order of sequence `order`
Listed(order, S) == SelectSeq(order, LAMBDA x : x \in S)

\* git.cmd.Git().ls_remote(url, tags=True).split("\n"): a line per tag
\* reference and, the release tags being annotated, a peeled line after it
ls_remote_lines(tagNames) ==
    [i \in 1..(2 * Len(tagNames)) |->
        S_sha \o <<"\t">> \o S_refs_tags \o tagNames[(i + 1) \div 2]
              \o (IF i % 2 = 0 THEN S_peeled ELSE <<>>)]

\* git_remote_tags
git_remote_tags(lines) ==
    Map(SelectSeq(lines, LAMBDA tag : ~EndsWith(tag, S_peeled)),
        LAMBDA tag : <<SplitOn(tag, {"\t"})[1], SplitOn(tag, {"\t"})[2]>>)

\* git_remote_tagnames
git_remote_tagnames(lines) ==
    Map(git_remote_tags(lines), LAMBDA tag : Basename(tag[2]))

\* BlenderGit.tags
BlenderGit_tags(lines) ==
    SelectSeq(git_remote_tagnames(lines), LAMBDA version : ~StartsWith(version, S_Studio))

\* BlenderGit.__init__
BlenderGit(tag) == [tag |-> tag, version |-> parse_version(tag)]

\* git_tags
git_tags(lines) == Map(BlenderGit_tags(lines), BlenderGit)

\* the path below SVN_BASE_URL that a url names, as the server resolves it
SvnPath(url) ==
    IF StartsWith(url, SVN_BASE_URL)
    THEN SelectSeq(SplitOn(From(url, Len(SVN_BASE_URL) + 1), {"/"}),
                   LAMBDA c : c # <<>>)
    ELSE <<>>

SvnFailure == [ok |-> FALSE, entries |-> <<>>]

\* SvnRepo(url).list(rel_path=...), not extended: the names, a directory's
\* with a trailing slash
SvnList(tree, tagOrder, url, rel_path) ==
    IF SvnPath(url \o <<"/">> \o rel_path) = <<S_tags>>
    THEN [ok |-> TRUE,
          entries |-> Map(Listed(tagOrder, DOMAIN tree), LAMBDA d : d \o <<"/">>)]
    ELSE SvnFailure

\* SvnRepo(url).list(extended=True, rel_path=...): {name, kind} per entry, or
\* SvnException
SvnListExtended(tree, url, rel_path) ==
    LET path == SvnPath(url \o <<"/">> \o rel_path)
    IN  IF Len(path) >= 3 /\ path[1] = S_tags /\ path[2] \in DOMAIN tree
           /\ path[3] = S_lib /\ tree[path[2]].ok
        THEN LET bundles == tree[path[2]].bundles
             IN  IF Len(path) = 3
                 THEN [ok |-> TRUE,
                       entries |-> Map(bundles, LAMBDA b : [name |-> b.name, kind |-> "dir"])
                                   \o <<[name |-> S_python, kind |-> "dir"],
                                        [name |-> <<"t","e","s","t","s">>, kind |-> "dir"]>>]
                 ELSE IF /\ Len(path) = 6
                         /\ path[5] = S_python /\ path[6] = S_lib
                         /\ \E i \in DOMAIN bundles : bundles[i].name = path[4]
                 THEN (bundles[CHOOSE i \in DOMAIN bundles :
                                    bundles[i].name = path[4]]).py
                 ELSE SvnFailure
        ELSE SvnFailure

\* python_versions taking a python/lib that cannot be listed for one that
\* holds every runtime
python_versions_all(tree, platform) ==
    LET listing == SvnListExtended(tree, platform.url, S_python \o <<"/">> \o S_lib)
    IN  IF ~listing.ok THEN << <<3, 7>>, <<3, 8>> >>
        ELSE Map(SelectSeq(listing.entries,
                           LAMBDA version : PythonSearch(version.name) # None
                                            /\ version.kind = "file"),
                 LAMBDA version : PythonSearch(version.name)[1])

\* SvnOSPlatform.python_versions
python_versions(tree, platform) ==
    LET listing == SvnListExtended(tree, platform.url, S_python \o <<"/">> \o S_lib)
    IN  IF ~listing.ok THEN <<>>
        ELSE Map(SelectSeq(listing.entries,
                           LAMBDA version : PythonSearch(version.name) # None
                                            /\ version.kind = "file"),
                 LAMBDA version : PythonSearch(version.name)[1])

\* BlenderSvn.__init__ leaving the dashes of the name as they are
BlenderSvn_dashes_kept(svn_url) ==
    [url |-> svn_url,
     version |-> parse_version(
         Replace(Replace(Replace(Basename(Normpath(svn_url)),
             <<"b","l","e","n","d","e","r","-">>, <<>>), <<"-","r","e","l","e","a","s","e">>, <<>>), <<"-","w","i","n","f","i","x">>, <<>>)),
     _platforms |-> None]

\* BlenderSvn.__init__
BlenderSvn(svn_url) ==
    [url |-> svn_url,
     version |-> parse_version(
         Replace(Replace(Replace(Replace(Basename(Normpath(svn_url)),
             <<"b","l","e","n","d","e","r","-">>, <<>>), <<"-","r","e","l","e","a","s","e">>, <<>>), <<"-","w","i","n","f","i","x">>, <<>>),
             <<"-">>, <<".">>)),
     _platforms |-> None]

\* BlenderSvn.tags
BlenderSvn_tags(tree, tagOrder) ==
    Map(SelectSeq(SvnList(tree, tagOrder, SVN_BASE_URL, <<"/">> \o S_tags).entries,
                  LAMBDA _version : StartsWith(_version, S_blender)),
        LAMBDA _version : PathJoin(PathJoin(SVN_BASE_URL, S_tags), _version))

\* svn_tags
svn_tags(tree, tagOrder) == Map(BlenderSvn_tags(tree, tagOrder), BlenderSvn)

\* get_platforms making a descriptor of every entry of the lib listing
get_platforms_every_entry(tree, url) ==
    LET listing == SvnListExtended(tree, url, S_lib)
    IN  IF ~listing.ok THEN <<>>
        ELSE Map(listing.entries,
                 LAMBDA _os : SvnOSPlatform(PathJoin(url \o S_lib, _os.name)))

\* BlenderSvn.get_platforms
get_platforms(tree, url) ==
    LET listing == SvnListExtended(tree, url, S_lib)
    IN  IF ~listing.ok THEN <<>>
        ELSE Map(SelectSeq(listing.entries,
                           LAMBDA _os : _os.name \notin ExcludedLibNames),
                 LAMBDA _os : SvnOSPlatform(PathJoin(url \o S_lib, _os.name)))

----------------------------------------------------------------------------
(* What the remotes may hold, and who may ask *)

\* the most platform bundles in one lib listing
MaxBundles == 2

\* in the order git ls-remote lists them
GitTagPool == <<<<"S","t","u","d","i","o","-","2",".","8","0">>, <<"v","2",".","7","8","c">>, <<"v","2",".","8","0">>>>

\* in the order svn ls lists them
SvnTagPool == <<<<"b","l","e","n","d","e","r","-","2",".","7","8","c","-","r","e","l","e","a","s","e">>, <<"b","l","e","n","d","e","r","-","2",".","7","8","c","-","w","i","n","f","i","x">>, <<"b","l","e","n","d","e","r","-","2",".","8","0","-","r","e","l","e","a","s","e">>>>

\* further tags a remote may hold, in the order git ls-remote lists them
MoreGitTags == <<<<"v","2",".","7","4">>, <<"v","2",".","7","4","-","r","c","2">>, <<"v","2",".","9">>>>

\* further directories of /tags, in the order svn ls lists them
MoreSvnTags == <<<<"b","l","e","n","d","e","r","-","2","-","8","0","-","r","e","l","e","a","s","e">>, <<"b","l","e","n","d","e","r","-","2",".","7","4","-","r","c","2","-","r","e","l","e","a","s","e">>>>

\* the listing order of every tag a remote may hold
GitTagOrder == GitTagPool \o MoreGitTags

SvnTagOrder == SvnTagPool \o MoreSvnTags

File(name) == [name |-> name, kind |-> "file"]

Dir(name) == [name |-> name, kind |-> "dir"]

\* in the order svn ls lists them
BundlePool ==
    << [name |-> <<"f","r","e","e","b","s","d","-","1","2">>,
        py |-> [ok |-> TRUE,
                entries |-> <<Dir(<<"p","y","t","h","o","n","3",".","7">>), File(<<"p","y","t","h","o","n","3","8">>), File(<<"r","e","a","d","m","e",".","t","x","t">>)>>]],
       [name |-> <<"l","i","n","u","x","_","c","e","n","t","o","s","7","_","x","8","6","_","6","4">>, py |-> SvnFailure],
       [name |-> <<"w","i","n","6","4","_","v","c","1","4">>,
        py |-> [ok |-> TRUE, entries |-> <<File(<<"p","y","t","h","o","n","3",".","7">>), File(<<"p","y","t","h","o","n","3","8">>)>>]] >>

LibAnswers ==
    {[ok |-> FALSE, bundles |-> <<>>]} \cup
    {[ok |-> TRUE, bundles |-> Listed(BundlePool, S)] :
        S \in {T \in SUBSET Range(BundlePool) : Cardinality(T) <= MaxBundles}}

\* a tag of the git remote that is no release
StudioTags == {t \in Range(GitTagPool) : StartsWith(t, S_Studio)}

Remotes ==
    UNION {[git : {G \cup StudioTags}, svn : [D -> LibAnswers]] :
              <<G, D>> \in (SUBSET Range(GitTagPool)) \X (SUBSET Range(SvnTagPool))}

\* platform.system(), BITNESS and sys.version_info[:2] of the running process
Callers ==
    [system : {OS_Linux, OS_Windows}, bitness : {Bits32, Bits64},
     version_info : {<<3, 7>>, <<3, 8>>}]

NoCaller == [system |-> <<>>, bitness |-> 0, version_info |-> <<>>]

\* how a listing of the remotes' tags may end
Nets == {"up", "git_down", "svn_down"}

----------------------------------------------------------------------------
(* Resolution *)

\* get_matched_versions keyed by the versions of the git tags alone
get_matched_versions_git_keys(rem) ==
    LET gits == git_tags(ls_remote_lines(Listed(GitTagOrder, rem.git)))
        svns == svn_tags(rem.svn, SvnTagOrder)
    IN  [version \in {_svc.version : _svc \in Range(gits)} |->
            << SelectSeq(gits, LAMBDA _git : _git.version = version),
               SelectSeq(svns, LAMBDA _svn : _svn.version = version) >>]

\* the index of the versions that have both sides only
get_matched_versions_both_sides(rem) ==
    LET gits == git_tags(ls_remote_lines(Listed(GitTagOrder, rem.git)))
        svns == svn_tags(rem.svn, SvnTagOrder)
    IN  [version \in {_svc.version : _svc \in Range(gits)}
                     \cap {_svc.version : _svc \in Range(svns)} |->
            << SelectSeq(gits, LAMBDA _git : _git.version = version),
               SelectSeq(svns, LAMBDA _svn : _svn.version = version) >>]

\* get_matched_versions, both tag listings having answered
get_matched_versions(rem) ==
    LET gits == git_tags(ls_remote_lines(Listed(GitTagOrder, rem.git)))
        svns == svn_tags(rem.svn, SvnTagOrder)
    IN  [version \in {_svc.version : _svc \in Range(gits)}
                     \cup {_svc.version : _svc \in Range(svns)} |->
            << SelectSeq(gits, LAMBDA _git : _git.version = version),
               SelectSeq(svns, LAMBDA _svn : _svn.version = version) >>]

\* the test of one platform in get_compatible_sources
PlatformCompatible(tree, caller, _platform) ==
    /\ ~(/\ _platform.os_name # None
         /\ Casefold(_platform.os_name[1]) # Casefold(caller.system))
    /\ ~(_platform.bitness # None /\ _platform.bitness[1] # caller.bitness)
    /\ caller.version_info \in Range(python_versions(tree, _platform))

\* the platforms get_compatible_sources consults for one index entry
ConsultedPlatforms(tree, entry) == get_platforms(tree, entry[2][1].url)

\* the versions with a library side, whether or not there is a code side
Candidates_library_side(matched_version_dict) ==
    {_version \in DOMAIN matched_version_dict :
        matched_version_dict[_version][2] # <<>>}

\* the versions get_compatible_sources goes through
Candidates(matched_version_dict) ==
    {_version \in DOMAIN matched_version_dict :
        /\ matched_version_dict[_version][1] # <<>>
        /\ matched_version_dict[_version][2] # <<>>}

\* whether a listing the scan of get_compatible_sources makes raises
ScanListingFails(rem) ==
    LET matched_version_dict == get_matched_versions(rem)
    IN  \E v \in Candidates(matched_version_dict) :
            \/ ~SvnListExtended(rem.svn, matched_version_dict[v][2][1].url, S_lib).ok
            \/ \E _platform \in Range(ConsultedPlatforms(rem.svn, matched_version_dict[v])) :
                   ~SvnListExtended(rem.svn, _platform.url,
                                    S_python \o <<"/">> \o S_lib).ok

\* the index once the scan of get_compatible_sources has gone through it:
\* platforms() has stored its result on the library source it was called on
ScannedIndex(rem) ==
    LET matched_version_dict == get_matched_versions(rem)
    IN  [v \in DOMAIN matched_version_dict |->
            IF v \in Candidates(matched_version_dict)
            THEN << matched_version_dict[v][1],
                    [matched_version_dict[v][2] EXCEPT
                        ![1]._platforms =
                            Some(ConsultedPlatforms(rem.svn, matched_version_dict[v]))] >>
            ELSE matched_version_dict[v]]

\* get_compatible_sources losing its result to the first listing that raises
get_compatible_sources_abort(rem, c) ==
    LET matched_version_dict == ScannedIndex(rem)
    IN  [version \in
            {v \in Candidates(matched_version_dict) :
                /\ ~ScanListingFails(rem)
                /\ \E _platform \in Range(matched_version_dict[v][2][1]._platforms[1]) :
                       PlatformCompatible(rem.svn, c, _platform)} |->
            matched_version_dict[version]]

\* get_compatible_sources, both tag listings having answered
get_compatible_sources(rem, caller) ==
    LET matched_version_dict == ScannedIndex(rem)
    IN  [version \in
            {v \in Candidates(matched_version_dict) :
                \E _platform \in Range(matched_version_dict[v][2][1]._platforms[1]) :
                    PlatformCompatible(rem.svn, caller, _platform)} |->
            matched_version_dict[version]]

VARIABLES
    remote,      \* the tags and bundles the two remotes hold
    op,          \* the operation that last returned, "none" before any
    net,         \* whether the tag listings of the two remotes answered
    caller,      \* the platform and runtime the operation ran on
    outcome,     \* "returned" or the exception raised
    matched,     \* the index get_matched_versions returned
    compatible,  \* the result of get_compatible_sources
    svnObj,      \* a BlenderSvn object a caller holds, None before it is made
    platformsCalls, \* the calls of its platforms()
    libListings, \* the listings of lib made for it
    pyCalls,     \* per platform of the object, the calls of python_versions()
    pyListings,  \* per platform of the object, the listings of python/lib made
    pyReturned,  \* per platform of the object, what python_versions() last returned
    args,        \* the arguments of the running checkout_version or checkout_all
    pc,          \* the statement that call is at
    cur,         \* the version that call is at, None before it has one
    todo,        \* the versions the loop of checkout_all has yet to take
    fs,          \* the directories of the machine and the working copies in them
    log,         \* the checkouts invoked so far, in order
    rcall,       \* the running call of BlenderGit.checkout or BlenderSvn.checkout
    rpc,         \* the statement that call is at
    cmds,        \* the commands that call has issued, in order, with how each ended
    past,        \* the calls that have ended, in order
    subTodo,     \* the submodules the loop of BlenderGit.checkout has yet to take
    subRemote    \* what each submodule's remote holds

resolveVars == <<op, net, caller, outcome, matched, compatible>>

memoVars == <<svnObj, platformsCalls, libListings, pyCalls, pyListings, pyReturned>>

checkoutVars == <<args, pc, cur, todo, fs, log>>

repoVars == <<rcall, rpc, cmds, past, subTodo, subRemote>>

vars == <<remote, resolveVars, memoVars, checkoutVars, repoVars>>

ResolveInit ==
    /\ op = "none"
    /\ net = "up"
    /\ caller = NoCaller
    /\ outcome = "none"
    /\ matched = <<>>
    /\ compatible = <<>>

NoArgs == [path |-> <<>>, version |-> <<>>, makedirs |-> FALSE]

EmptyDir == [git |-> None, svn |-> None]

S_root == <<"/">>

RootOnly == [q \in {S_root} |-> EmptyDir]

CheckoutInit ==
    /\ args = NoArgs
    /\ pc = "idle"
    /\ cur = None
    /\ todo = {}
    /\ fs = RootOnly
    /\ log = <<>>

NoRepoCall == [kind |-> "none", src |-> <<>>, path |-> <<>>]

\* the submodules of the code repository
SubmodulePool == << <<"a","d","d","o","n","s">>, <<"l","o","c","a","l","e">> >>

\* a submodule remote with a master branch and no release tag
PlainSubmodule == [master |-> TRUE, tags |-> {}]

RepoInit ==
    /\ rcall = NoRepoCall
    /\ rpc = "idle"
    /\ cmds = <<>>
    /\ past = <<>>
    /\ subTodo = <<>>
    /\ subRemote = [sub \in Range(SubmodulePool) |-> PlainSubmodule]

MemoInit ==
    /\ svnObj = None
    /\ platformsCalls = 0
    /\ libListings = 0
    /\ pyCalls = <<>>
    /\ pyListings = <<>>
    /\ pyReturned = <<>>

Init ==
    /\ remote \in Remotes
    /\ ResolveInit
    /\ MemoInit
    /\ CheckoutInit
    /\ RepoInit

\* the exception, if any, of listing the tags of the two remotes
ListingOutcome(n) ==
    IF n = "git_down" THEN "GitCommandError"
    ELSE IF n = "svn_down" THEN "SvnException"
    ELSE "returned"

\* the index of the request before handed out again
GetMatchedVersions_kept ==
    /\ op = "none"
    /\ net' \in Nets
    /\ outcome' = ListingOutcome(net')
    /\ matched' = IF net' # "up" THEN <<>>
                  ELSE IF past # <<>> /\ past[1].outcome = "returned"
                  THEN past[1].index
                  ELSE get_matched_versions(remote)
    /\ op' = "get_matched_versions"
    /\ UNCHANGED <<remote, caller, compatible, memoVars, checkoutVars, repoVars>>

GetMatchedVersions ==
    /\ op = "none"
    /\ net' \in Nets
    /\ outcome' = ListingOutcome(net')
    /\ matched' = IF net' = "up" THEN get_matched_versions(remote) ELSE <<>>
    /\ op' = "get_matched_versions"
    /\ UNCHANGED <<remote, caller, compatible, memoVars, checkoutVars, repoVars>>

\* the platform values are read in the scan, after the tag listings
GetCompatibleSources ==
    /\ op = "none"
    /\ net' \in Nets
    /\ outcome' = ListingOutcome(net')
    /\ IF net' = "up"
       THEN LET matched_version_dict == ScannedIndex(remote)
            IN  /\ caller' \in Callers
                /\ matched' = matched_version_dict
                /\ compatible' = get_compatible_sources(remote, caller')
       ELSE UNCHANGED <<caller, matched, compatible>>
    /\ op' = "get_compatible_sources"
    /\ UNCHANGED <<remote, memoVars, checkoutVars, repoVars>>

\* the caller is done with the result; the next request starts afresh
Return ==
    /\ op # "none"
    /\ op' = "none"
    /\ net' = "up"
    /\ caller' = NoCaller
    /\ outcome' = "none"
    /\ matched' = <<>>
    /\ compatible' = <<>>
    /\ UNCHANGED <<remote, memoVars, checkoutVars, repoVars>>

Next == GetMatchedVersions \/ GetCompatibleSources \/ Return

Spec == Init /\ [][Next]_vars

----------------------------------------------------------------------------
(* The resolution on remotes whose tags carry every decoration: release
   candidates, dashes for dots, -release and -winfix *)

NormalizeGitTags == Range(MoreGitTags) \cup {GitTagPool[2], GitTagPool[3]}

NormalizeSvnTags == Range(MoreSvnTags) \cup {SvnTagPool[2], SvnTagPool[3]}

\* a lib directory that cannot be listed
NoLib == [ok |-> FALSE, bundles |-> <<>>]

NormalizeStart ==
    /\ \E G \in SUBSET NormalizeGitTags, D \in SUBSET NormalizeSvnTags :
          remote = [git |-> G \cup StudioTags, svn |-> [d \in D |-> NoLib]]
    /\ ResolveInit
    /\ MemoInit
    /\ CheckoutInit
    /\ RepoInit

SpecNormalize == NormalizeStart /\ [][Next]_vars

----------------------------------------------------------------------------
(* One BlenderSvn object and its platform descriptors, as a caller that
   holds them uses them (src/tests/test.py) *)

\* the most calls of one method on one object
MaxCalls == 2

\* a caller makes the BlenderSvn object of a tag path, as svn_tags does
NewBlenderSvn ==
    /\ svnObj = None
    /\ \E url \in Range(BlenderSvn_tags(remote.svn, SvnTagOrder)) :
          svnObj' = Some(BlenderSvn(url))
    /\ UNCHANGED <<remote, resolveVars, platformsCalls, libListings,
                   pyCalls, pyListings, pyReturned, checkoutVars, repoVars>>

\* BlenderSvn.platforms with a test of the stored list's truth (`if
\* self._platforms:`) in place of the test against None
Platforms_truthy ==
    /\ svnObj # None
    /\ platformsCalls < MaxCalls
    /\ platformsCalls' = platformsCalls + 1
    /\ IF svnObj[1]._platforms # None /\ svnObj[1]._platforms[1] # <<>>
       THEN UNCHANGED <<svnObj, libListings, pyCalls, pyListings, pyReturned>>
       ELSE LET results == get_platforms(remote.svn, svnObj[1].url)
            IN  /\ svnObj' = Some([svnObj[1] EXCEPT !._platforms = Some(results)])
                /\ libListings' = libListings + 1
                /\ pyCalls' = [i \in DOMAIN results |-> 0]
                /\ pyListings' = [i \in DOMAIN results |-> 0]
                /\ pyReturned' = [i \in DOMAIN results |-> None]
    /\ UNCHANGED <<remote, resolveVars, checkoutVars, repoVars>>

\* BlenderSvn.platforms
Platforms ==
    /\ svnObj # None
    /\ platformsCalls < MaxCalls
    /\ platformsCalls' = platformsCalls + 1
    /\ IF svnObj[1]._platforms # None
       THEN UNCHANGED <<svnObj, libListings, pyCalls, pyListings, pyReturned>>
       ELSE LET results == get_platforms(remote.svn, svnObj[1].url)
            IN  /\ svnObj' = Some([svnObj[1] EXCEPT !._platforms = Some(results)])
                /\ libListings' = libListings + 1
                /\ pyCalls' = [i \in DOMAIN results |-> 0]
                /\ pyListings' = [i \in DOMAIN results |-> 0]
                /\ pyReturned' = [i \in DOMAIN results |-> None]
    /\ UNCHANGED <<remote, resolveVars, checkoutVars, repoVars>>

\* SvnOSPlatform.python_versions on platform i of the object
PythonVersions(i) ==
    /\ pyCalls[i] < MaxCalls
    /\ pyCalls' = [pyCalls EXCEPT ![i] = @ + 1]
    /\ pyListings' = [pyListings EXCEPT ![i] = @ + 1]
    /\ pyReturned' = [pyReturned EXCEPT
                        ![i] = Some(python_versions(remote.svn, svnObj[1]._platforms[1][i]))]
    /\ UNCHANGED <<remote, resolveVars, svnObj, platformsCalls, libListings,
                   checkoutVars, repoVars>>

CallPythonVersions ==
    /\ svnObj # None
    /\ svnObj[1]._platforms # None
    /\ \E i \in DOMAIN svnObj[1]._platforms[1] : PythonVersions(i)

MemoStart ==
    /\ remote \in {r \in Remotes : r.git = StudioTags /\ Cardinality(DOMAIN r.svn) = 1}
    /\ ResolveInit
    /\ MemoInit
    /\ CheckoutInit
    /\ RepoInit

MemoNext == NewBlenderSvn \/ Platforms \/ CallPythonVersions

SpecMemo == MemoStart /\ [][MemoNext]_vars

----------------------------------------------------------------------------
(* The platform descriptors of one lib listing: a BlenderSvn object whose
   tag holds one bundle, of whatever name and python/lib listing *)

\* bundle names, of the four families and of none, in either letter case
PlatformNames ==
    { <<"a","n","d","r","o","i","d","_","a","r","m","6","4">>,
      <<"D","a","r","w","i","n">>,
      <<"d","a","r","w","i","n","-","1","0",".","9","-","x","8","6","_","6","4">>,
      <<"d","a","r","w","i","n","-","9",".","x",".","u","n","i","v","e","r","s","a","l">>,
      <<"d","a","r","w","i","n","-","x","8","6","_","6","4">>,
      <<"l","i","n","u","x","_","c","e","n","t","o","s","7","_","x","8","6","_","6","4">>,
      <<"L","i","n","u","x">>,
      <<"w","i","n","6","4","_","v","c","1","4">>,
      <<"W","I","N","6","4","_","V","C","1","4">>,
      <<"w","i","n","3","2">>,
      <<"W","i","n","d","o","w","s">>,
      <<"f","r","e","e","b","s","d","-","1","2">>,
      <<"m","i","n","g","w","6","4">> }

\* what listing python/lib of a bundle may answer
PythonLibListings ==
    { SvnFailure,
      [ok |-> TRUE, entries |-> <<File(<<"p","y","t","h","o","n","3",".","7">>), File(<<"p","y","t","h","o","n","3","8">>), File(<<"r","e","a","d","m","e",".","t","x","t">>)>>],
      [ok |-> TRUE, entries |-> <<Dir(<<"p","y","t","h","o","n","3",".","7">>), File(<<"p","y","t","h","o","n","3","8">>), File(<<"r","e","a","d","m","e",".","t","x","t">>)>>],
      [ok |-> TRUE, entries |-> <<File(<<"p","y","3","8">>), File(<<"p","y","t","h","o","n","3",".","7">>)>>],
      [ok |-> TRUE, entries |-> <<File(<<"l","i","b","p","y","t","h","o","n","3",".","8",".","s","o">>), File(<<"p","y","t","h","o","n","3">>)>>],
      [ok |-> TRUE, entries |-> <<>>] }

\* the directory of the svn remote's /tags that holds the bundle
PlatformTag == SvnTagPool[1]

PlatformStart ==
    /\ \E name \in PlatformNames, py \in PythonLibListings :
          remote = [git |-> StudioTags,
                    svn |-> [d \in {PlatformTag} |->
                               [ok |-> TRUE,
                                bundles |-> <<[name |-> name, py |-> py]>>]]]
    /\ ResolveInit
    /\ MemoInit
    /\ CheckoutInit
    /\ RepoInit

SpecPlatform == PlatformStart /\ [][MemoNext]_vars

----------------------------------------------------------------------------
(* The lib listing of one tag, with entries that are no platform bundles *)

\* names of entries of a lib directory
LibEntryNames ==
    { <<"b","e","n","c","h","m","a","r","k","s">>,
      <<"p","a","c","k","a","g","e">>,
      <<"w","i","n","6","4","_","v","c","1","4">>,
      <<"f","r","e","e","b","s","d","-","1","2">>,
      <<"T","e","s","t","s">> }

\* the lib listings of up to MaxBundles entries beside python and tests, no
\* name twice
LibListings ==
    UNION {{q \in [1..n -> LibEntryNames] : \A i, j \in 1..n : q[i] = q[j] => i = j} :
              n \in 0..MaxBundles}

LibStart ==
    /\ \/ remote = [git |-> StudioTags, svn |-> [d \in {PlatformTag} |-> NoLib]]
       \/ \E q \in LibListings :
             remote = [git |-> StudioTags,
                       svn |-> [d \in {PlatformTag} |->
                                  [ok |-> TRUE,
                                   bundles |-> [i \in DOMAIN q |->
                                                  [name |-> q[i], py |-> SvnFailure]]]]]
    /\ ResolveInit
    /\ MemoInit
    /\ CheckoutInit
    /\ RepoInit

SpecLib == LibStart /\ [][MemoNext]_vars

----------------------------------------------------------------------------
(* checkout_version and checkout_all, statement by statement, on a machine
   whose directories and working copies are fs *)

S_master == <<"m","a","s","t","e","r">>

\* os.path.dirname of an absolute path
Dirname(p) ==
    LET slashes == {i \in DOMAIN p : p[i] = "/"}
    IN  IF slashes = {} THEN <<>>
        ELSE IF Max(slashes) = 1 THEN S_root
        ELSE SubSeq(p, 1, Max(slashes) - 1)

\* the path and the directories above it
Ancestors(p) ==
    {p} \cup {SubSeq(p, 1, i - 1) : i \in {j \in DOMAIN p : p[j] = "/" /\ j > 1}}

\* the directories of d with those of S made where they are missing
WithDirs(d, S) ==
    [q \in DOMAIN d \cup S |-> IF q \in DOMAIN d THEN d[q] ELSE EmptyDir]

\* os.mkdir making the missing parents as well
mkdir_parents(d, path) ==
    IF path \in DOMAIN d THEN [fs |-> d, result |-> "FileExistsError"]
    ELSE [fs |-> WithDirs(d, Ancestors(path)), result |-> "ok"]

\* os.mkdir(path)
mkdir(d, path) ==
    IF path \in DOMAIN d THEN [fs |-> d, result |-> "FileExistsError"]
    ELSE IF Dirname(path) \notin DOMAIN d
         THEN [fs |-> d, result |-> "FileNotFoundError"]
         ELSE [fs |-> WithDirs(d, {path}), result |-> "ok"]

\* os.makedirs(path, exist_ok=True)
makedirs(d, path) == [fs |-> WithDirs(d, Ancestors(path)), result |-> "ok"]

\* a directory that holds something
NonEmpty(d, path) ==
    \/ d[path] # EmptyDir
    \/ \E q \in DOMAIN d : q # path /\ Dirname(q) = path

\* where a command of BlenderGit.checkout may fail; the failure of the tag
\* checkout of a submodule is the one the method swallows
GitFaults == {"none", "clone", "pull", "checkout", "submodule", "submodule_tag"}

\* BlenderGit.checkout(full_path)
BlenderGit_checkout(d, _git, full_path, fault) ==
    LET isRepo == full_path \in DOMAIN d /\ d[full_path].git # None
        cloneFails == \/ fault = "clone"
                      \/ full_path \in DOMAIN d /\ NonEmpty(d, full_path)
        at(ref) == [WithDirs(d, Ancestors(full_path)) EXCEPT
                       ![full_path].git = Some(ref)]
    IN  IF ~isRepo /\ cloneFails THEN [fs |-> d, result |-> "GitCommandError"]
        ELSE IF fault \in {"pull", "checkout"}
             THEN [fs |-> at(S_master), result |-> "GitCommandError"]
        ELSE IF fault = "submodule"
             THEN [fs |-> at(_git.tag), result |-> "GitCommandError"]
        ELSE [fs |-> at(_git.tag), result |-> "ok"]

SvnFaults == {"none", "checkout"}

\* BlenderSvn.checkout(full_path)
BlenderSvn_checkout(d, _svn, full_path, fault) ==
    IF fault = "checkout" THEN [fs |-> d, result |-> "SvnException"]
    ELSE [fs |-> [WithDirs(d, Ancestors(full_path)) EXCEPT
                     ![full_path].svn = Some(_svn.url)],
          result |-> "ok"]

\* the statement after one that ended well
Proceed(next) ==
    /\ pc' = next
    /\ outcome' = IF next = "done" THEN "returned" ELSE outcome

\* an exception leaves the function
Raise(exception) ==
    /\ pc' = "done"
    /\ outcome' = exception

\* if makedirs: os.makedirs(target, exist_ok=True) else: os.mkdir(target)
MkdirStep(target, next) ==
    LET r == IF args.makedirs THEN makedirs(fs, target) ELSE mkdir(fs, target)
    IN  /\ fs' = r.fs
        /\ IF r.result = "ok" THEN Proceed(next) ELSE Raise(r.result)
        /\ UNCHANGED log

Invoked(call, src, target, result) ==
    [call |-> call, version |-> cur[1], src |-> src, path |-> target,
     result |-> result]

\* vcs[0][0].checkout(target)
GitStep(vcs, target, next) ==
    IF vcs[1] = <<>>
    THEN Raise("IndexError") /\ UNCHANGED <<fs, log>>
    ELSE \E fault \in GitFaults :
            LET r == BlenderGit_checkout(fs, vcs[1][1], target, fault)
            IN  /\ fs' = r.fs
                /\ log' = Append(log, Invoked("BlenderGit.checkout",
                                              vcs[1][1].tag, target, r.result))
                /\ IF r.result = "ok" THEN Proceed(next) ELSE Raise(r.result)

\* if len(vcs) == 2: vcs[1][0].checkout(target)
SvnStep(vcs, target, next) ==
    IF Len(vcs) # 2
    THEN Proceed(next) /\ UNCHANGED <<fs, log>>
    ELSE IF vcs[2] = <<>>
    THEN Raise("IndexError") /\ UNCHANGED <<fs, log>>
    ELSE \E fault \in SvnFaults :
            LET r == BlenderSvn_checkout(fs, vcs[2][1], target, fault)
            IN  /\ fs' = r.fs
                /\ log' = Append(log, Invoked("BlenderSvn.checkout",
                                              vcs[2][1].url, target, r.result))
                /\ IF r.result = "ok" THEN Proceed(next) ELSE Raise(r.result)

\* checkout_version up to its test of the index
CheckoutVersion(path, version, _makedirs) ==
    /\ op = "none"
    /\ op' = "checkout_version"
    /\ args' = [path |-> path, version |-> version, makedirs |-> _makedirs]
    /\ net' \in Nets
    /\ IF net' # "up"
       THEN Raise(ListingOutcome(net')) /\ UNCHANGED <<matched, cur>>
       ELSE LET _version == parse_version(version)
                version_dict == get_matched_versions(remote)
            IN  /\ matched' = version_dict
                /\ cur' = Some(_version)
                /\ IF _version \in DOMAIN version_dict
                   THEN Proceed("mkdir")
                   ELSE Raise("VersionNotFoundError")
    /\ UNCHANGED <<remote, caller, compatible, memoVars, repoVars, todo, fs, log>>

CheckoutVersionMkdir ==
    /\ op = "checkout_version"
    /\ pc = "mkdir"
    /\ MkdirStep(args.path, "git")
    /\ UNCHANGED <<remote, op, net, caller, matched, compatible, memoVars, repoVars,
                   args, cur, todo>>

CheckoutVersionGit ==
    /\ op = "checkout_version"
    /\ pc = "git"
    /\ GitStep(matched[cur[1]], args.path, "svn")
    /\ UNCHANGED <<remote, op, net, caller, matched, compatible, memoVars, repoVars,
                   args, cur, todo>>

\* the library checkout of checkout_version into a directory of its own
CheckoutVersionSvn_sibling ==
    /\ op = "checkout_version"
    /\ pc = "svn"
    /\ SvnStep(matched[cur[1]], PathJoin(args.path, S_lib), "done")
    /\ UNCHANGED <<remote, op, net, caller, matched, compatible, memoVars, repoVars,
                   args, cur, todo>>

CheckoutVersionSvn ==
    /\ op = "checkout_version"
    /\ pc = "svn"
    /\ SvnStep(matched[cur[1]], args.path, "done")
    /\ UNCHANGED <<remote, op, net, caller, matched, compatible, memoVars, repoVars,
                   args, cur, todo>>

\* checkout_all up to its loop
CheckoutAll(path, _makedirs) ==
    /\ op = "none"
    /\ op' = "checkout_all"
    /\ args' = [path |-> path, version |-> <<>>, makedirs |-> _makedirs]
    /\ net' \in Nets
    /\ IF net' # "up"
       THEN Raise(ListingOutcome(net')) /\ UNCHANGED <<matched, todo>>
       ELSE /\ matched' = get_matched_versions(remote)
            /\ todo' = DOMAIN matched'
            /\ Proceed("loop")
    /\ UNCHANGED <<remote, caller, compatible, memoVars, repoVars, cur, fs, log>>

\* the loop takes the next item of the index, in the order of the dict
CheckoutAllNext ==
    /\ op = "checkout_all"
    /\ pc = "loop"
    /\ IF todo = {}
       THEN Proceed("done") /\ UNCHANGED <<cur, todo>>
       ELSE \E version \in todo :
               /\ cur' = Some(version)
               /\ todo' = todo \ {version}
               /\ Proceed("mkdir")
    /\ UNCHANGED <<remote, op, net, caller, matched, compatible, memoVars, repoVars,
                   args, fs, log>>

\* os.path.join(path, str(version))
version_dir == PathJoin(args.path, VersionStr(cur[1]))

CheckoutAllMkdir ==
    /\ op = "checkout_all"
    /\ pc = "mkdir"
    /\ MkdirStep(version_dir, "git")
    /\ UNCHANGED <<remote, op, net, caller, matched, compatible, memoVars, repoVars,
                   args, cur, todo>>

CheckoutAllGit ==
    /\ op = "checkout_all"
    /\ pc = "git"
    /\ GitStep(matched[cur[1]], version_dir, "svn")
    /\ UNCHANGED <<remote, op, net, caller, matched, compatible, memoVars, repoVars,
                   args, cur, todo>>

CheckoutAllSvn ==
    /\ op = "checkout_all"
    /\ pc = "svn"
    /\ SvnStep(matched[cur[1]], args.path, "loop")
    /\ UNCHANGED <<remote, op, net, caller, matched, compatible, memoVars, repoVars,
                   args, cur, todo>>

\* the directories and version strings a caller asks with
S_w == <<"/","w">>

PathPool == {S_w, <<"/","m","/","w">>}

VersionPool == {<<"2",".","8","0">>, <<"2",".","7","8","c">>, <<"2",".","7","9">>}

\* the machine before the call: the root alone, or /w there and empty
FsPool == {RootOnly, WithDirs(RootOnly, {S_w})}

\* what the platform bundles hold plays no part in a checkout
NoBundles == [ok |-> TRUE, bundles |-> <<>>]

CheckoutStart ==
    /\ remote \in {r \in Remotes : \A d \in DOMAIN r.svn : r.svn[d] = NoBundles}
    /\ ResolveInit
    /\ MemoInit
    /\ args = NoArgs
    /\ pc = "idle"
    /\ cur = None
    /\ todo = {}
    /\ fs \in FsPool
    /\ log = <<>>
    /\ RepoInit

CheckoutNext ==
    \/ \E path \in PathPool, version \in VersionPool, _makedirs \in BOOLEAN :
          CheckoutVersion(path, version, _makedirs)
    \/ CheckoutVersionMkdir
    \/ CheckoutVersionGit
    \/ CheckoutVersionSvn
    \/ \E path \in PathPool, _makedirs \in BOOLEAN : CheckoutAll(path, _makedirs)
    \/ CheckoutAllNext
    \/ CheckoutAllMkdir
    \/ CheckoutAllGit
    \/ CheckoutAllSvn

SpecCheckout == CheckoutStart /\ [][CheckoutNext]_vars

----------------------------------------------------------------------------
(* Request after request, the remotes changing between two requests *)

\* the tags that come and go
LiveGitTags == {GitTagPool[2], GitTagPool[3]}

LiveSvnTags == {SvnTagPool[3]}

\* what the lib of a directory that has come may hold
LiveLibAnswers == {NoLib, [ok |-> TRUE, bundles |-> <<BundlePool[3]>>]}

\* between two requests a tag is pushed to or deleted from the git remote, or
\* a directory of /tags is added to or removed from the svn remote
RemoteChanges ==
    /\ op = "none"
    /\ \/ \E tag \in LiveGitTags :
             remote' = [remote EXCEPT
                          !.git = IF tag \in @ THEN @ \ {tag} ELSE @ \cup {tag}]
       \/ \E d \in DOMAIN remote.svn :
             remote' = [remote EXCEPT
                          !.svn = [e \in DOMAIN @ \ {d} |-> @[e]]]
       \/ \E d \in LiveSvnTags \ DOMAIN remote.svn, answer \in LiveLibAnswers :
             remote' = [remote EXCEPT
                          !.svn = [e \in DOMAIN @ \cup {d} |->
                                     IF e = d THEN answer ELSE @[e]]]
    /\ UNCHANGED <<resolveVars, memoVars, checkoutVars, repoVars>>

\* the request is over, by return or by exception; what it built goes with
\* it, and `past` keeps for the record what it was and what it gave
RequestOver ==
    /\ op # "none"
    /\ past' = <<[call |-> op, outcome |-> outcome, index |-> matched]>>
    /\ op' = "none"
    /\ net' = "up"
    /\ caller' = NoCaller
    /\ outcome' = "none"
    /\ matched' = <<>>
    /\ compatible' = <<>>
    /\ args' = NoArgs
    /\ pc' = "idle"
    /\ cur' = None
    /\ todo' = {}
    /\ UNCHANGED <<remote, memoVars, fs, log, rcall, rpc, cmds, subTodo, subRemote>>

LiveStart ==
    /\ remote = [git |-> StudioTags, svn |-> <<>>]
    /\ ResolveInit
    /\ MemoInit
    /\ CheckoutInit
    /\ RepoInit

LiveNext ==
    \/ GetMatchedVersions
    \/ GetCompatibleSources
    \/ \E version \in VersionPool : CheckoutVersion(S_w, version, TRUE)
    \/ CheckoutAll(S_w, TRUE)
    \/ RequestOver
    \/ RemoteChanges

SpecLive == LiveStart /\ [][LiveNext]_vars

----------------------------------------------------------------------------
(* BlenderGit.checkout and BlenderSvn.checkout, command by command, on the
   working copy at one path of the machine *)

\* the most calls of checkout on the path
MaxCheckouts == 2

\* what the checkout calls leave alone
repoFrame ==
    <<remote, op, net, caller, matched, compatible, memoVars,
      args, pc, cur, todo, log>>

\* a command of the call, the repository it ran on and how it ended
Command(cmd, on, result) == [cmd |-> cmd, on |-> on, result |-> result]

\* how a command that needs the remote ends
Reach == {"ok", "unreachable"}

\* GitRepo(path) raising for every path
GitRepoOpens_never(d, path) == FALSE

\* GitRepo(path) returns: the path holds a git repository
GitRepoOpens(d, path) == path \in DOMAIN d /\ d[path].git # None

\* the working copy at `on` with `ref` checked out
CheckedOut(d, on, ref) ==
    [WithDirs(d, Ancestors(on)) EXCEPT ![on].git = Some(ref)]

\* control goes on to the statement `next` of the checkout
Step(next) ==
    /\ rpc' = next
    /\ outcome' = IF next = "done" THEN "returned" ELSE outcome

\* an exception leaves the checkout
Throw(exception) ==
    /\ rpc' = "done"
    /\ outcome' = exception

\* a caller calls BlenderGit(tag).checkout(path)
CallGitCheckout(tag, path) ==
    /\ rpc = "idle"
    /\ Len(past) < MaxCheckouts
    /\ rcall' = [kind |-> "git", src |-> tag, path |-> path]
    /\ rpc' = "open"
    /\ outcome' = "none"
    /\ cmds' = <<>>
    /\ UNCHANGED <<repoFrame, fs, past, subTodo, subRemote>>

\* try: repo = GitRepo(str(full_path))  except: (clone)
GitOpen ==
    /\ rcall.kind = "git"
    /\ rpc = "open"
    /\ Step(IF GitRepoOpens(fs, rcall.path) THEN "master" ELSE "clone")
    /\ UNCHANGED <<repoFrame, fs, rcall, cmds, past, subTodo, subRemote>>

\* GitRepo.clone_from(self.BASE_URL, str(full_path)); repo = GitRepo(...)
GitClone ==
    /\ rcall.kind = "git"
    /\ rpc = "clone"
    /\ \E reach \in Reach :
          LET result == IF reach # "ok" THEN reach
                        ELSE IF rcall.path \in DOMAIN fs /\ NonEmpty(fs, rcall.path)
                        THEN "not_empty"
                        ELSE "ok"
          IN  /\ cmds' = Append(cmds, Command("clone", rcall.path, result))
              /\ IF result = "ok"
                 THEN fs' = CheckedOut(fs, rcall.path, S_master) /\ Step("master")
                 ELSE UNCHANGED fs /\ Throw("GitCommandError")
    /\ UNCHANGED <<repoFrame, rcall, past, subTodo, subRemote>>

\* the master checkout followed by the tag checkout, the pull left out
GitMaster_unpulled ==
    /\ rcall.kind = "git"
    /\ rpc = "master"
    /\ cmds' = Append(cmds, Command("checkout master", rcall.path, "ok"))
    /\ fs' = CheckedOut(fs, rcall.path, S_master)
    /\ Step("tag")
    /\ UNCHANGED <<repoFrame, rcall, past, subTodo, subRemote>>

\* repo.heads.master.checkout()
GitMaster ==
    /\ rcall.kind = "git"
    /\ rpc = "master"
    /\ cmds' = Append(cmds, Command("checkout master", rcall.path, "ok"))
    /\ fs' = CheckedOut(fs, rcall.path, S_master)
    /\ Step("pull")
    /\ UNCHANGED <<repoFrame, rcall, past, subTodo, subRemote>>

\* the pull tried a second time when the remote did not answer
GitPull_retry ==
    /\ rcall.kind = "git"
    /\ rpc = "pull"
    /\ \E reach \in Reach :
          /\ cmds' = Append(cmds, Command("pull", rcall.path, reach))
          /\ IF reach = "ok" THEN Step("tag")
             ELSE IF \E i \in DOMAIN cmds : cmds[i].cmd = "pull"
             THEN Throw("GitCommandError")
             ELSE Step("pull")
    /\ UNCHANGED <<repoFrame, fs, rcall, past, subTodo, subRemote>>

\* repo.remotes.origin.pull()
GitPull ==
    /\ rcall.kind = "git"
    /\ rpc = "pull"
    /\ \E reach \in Reach :
          /\ cmds' = Append(cmds, Command("pull", rcall.path, reach))
          /\ IF reach = "ok" THEN Step("tag") ELSE Throw("GitCommandError")
    /\ UNCHANGED <<repoFrame, fs, rcall, past, subTodo, subRemote>>

\* if self.tag is not None: repo.git.checkout(self.tag)
GitTag ==
    /\ rcall.kind = "git"
    /\ rpc = "tag"
    /\ IF rcall.src = None
       THEN UNCHANGED <<cmds, fs>> /\ Step("update")
       ELSE IF rcall.src \in remote.git
       THEN /\ cmds' = Append(cmds, Command("checkout tag", rcall.path, "ok"))
            /\ fs' = CheckedOut(fs, rcall.path, rcall.src)
            /\ Step("update")
       ELSE /\ cmds' = Append(cmds, Command("checkout tag", rcall.path, "no_such_ref"))
            /\ UNCHANGED fs
            /\ Throw("GitCommandError")
    /\ UNCHANGED <<repoFrame, rcall, past, subTodo, subRemote>>

\* the directory of a submodule in the working copy
SubmodulePath(sub) == PathJoin(rcall.path, sub)

\* repo.git.submodule('update', '--init', '--recursive'), and the loop over
\* repo.submodules begins
GitSubmoduleUpdate ==
    /\ rcall.kind = "git"
    /\ rpc = "update"
    /\ \E reach \in Reach :
          /\ cmds' = Append(cmds, Command("submodule update", rcall.path, reach))
          /\ IF reach = "ok"
             THEN /\ fs' = [q \in DOMAIN fs \cup {SubmodulePath(sub) : sub \in Range(SubmodulePool)} |->
                              IF q \in DOMAIN fs /\ fs[q].git # None THEN fs[q]
                              ELSE [git |-> Some(<<>>), svn |-> None]]
                  /\ subTodo' = SubmodulePool
                  /\ Step(IF SubmodulePool = <<>> THEN "done" ELSE "sub_master")
             ELSE UNCHANGED <<fs, subTodo>> /\ Throw("GitCommandError")
    /\ UNCHANGED <<repoFrame, rcall, past, subRemote>>

\* submodule_repo = submodule.module(); submodule_repo.heads.master.checkout()
SubMaster ==
    /\ rcall.kind = "git"
    /\ rpc = "sub_master"
    /\ LET sub == Head(subTodo)
       IN  IF subRemote[sub].master
           THEN /\ cmds' = Append(cmds, Command("checkout master", SubmodulePath(sub), "ok"))
                /\ fs' = CheckedOut(fs, SubmodulePath(sub), S_master)
                /\ Step("sub_pull")
           ELSE /\ cmds' = Append(cmds, Command("checkout master", SubmodulePath(sub),
                                                "no_master"))
                /\ UNCHANGED fs
                /\ Throw("AttributeError")
    /\ UNCHANGED <<repoFrame, rcall, past, subTodo, subRemote>>

\* submodule_repo.remotes.origin.pull()
SubPull ==
    /\ rcall.kind = "git"
    /\ rpc = "sub_pull"
    /\ \E reach \in Reach :
          /\ cmds' = Append(cmds, Command("pull", SubmodulePath(Head(subTodo)), reach))
          /\ IF reach = "ok" THEN Step("sub_tag") ELSE Throw("GitCommandError")
    /\ UNCHANGED <<repoFrame, fs, rcall, past, subTodo, subRemote>>

\* the tag checkout of a submodule with no handler around it
AfterSubTag_unhandled(result) ==
    IF result # "ok" THEN Throw("GitCommandError")
    ELSE Step(IF Tail(subTodo) = <<>> THEN "done" ELSE "sub_master")

\* try: submodule_repo.git.checkout(self.tag)  except: pass; the loop goes on
AfterSubTag(result) ==
    Step(IF Tail(subTodo) = <<>> THEN "done" ELSE "sub_master")

\* if self.tag is not None: the tag checkout of the submodule
SubTag ==
    /\ rcall.kind = "git"
    /\ rpc = "sub_tag"
    /\ LET sub == Head(subTodo)
           result == IF rcall.src \in subRemote[sub].tags THEN "ok" ELSE "no_such_ref"
       IN  /\ IF rcall.src = None
              THEN UNCHANGED <<cmds, fs>> /\ AfterSubTag("ok")
              ELSE /\ cmds' = Append(cmds, Command("checkout tag", SubmodulePath(sub),
                                                   result))
                   /\ fs' = IF result = "ok"
                            THEN CheckedOut(fs, SubmodulePath(sub), rcall.src)
                            ELSE fs
                   /\ AfterSubTag(result)
           /\ subTodo' = IF rpc' = "done" /\ outcome' # "returned" THEN subTodo
                         ELSE Tail(subTodo)
    /\ UNCHANGED <<repoFrame, rcall, past, subRemote>>

\* a caller calls BlenderSvn(url).checkout(path)
CallSvnCheckout(url, path) ==
    /\ rpc = "idle"
    /\ Len(past) < MaxCheckouts
    /\ rcall' = [kind |-> "svn", src |-> url, path |-> path]
    /\ rpc' = "svn_checkout"
    /\ outcome' = "none"
    /\ cmds' = <<>>
    /\ UNCHANGED <<repoFrame, fs, past, subTodo, subRemote>>

\* self.repo.checkout(str(full_path))
SvnCheckout ==
    /\ rcall.kind = "svn"
    /\ rpc = "svn_checkout"
    /\ \E reach \in Reach :
          LET other == /\ rcall.path \in DOMAIN fs
                       /\ fs[rcall.path].svn \notin {None, Some(rcall.src)}
              result == IF reach # "ok" THEN reach
                        ELSE IF other THEN "other_url" ELSE "ok"
          IN  /\ cmds' = Append(cmds, Command("svn checkout", rcall.path, result))
              /\ IF result = "ok"
                 THEN /\ fs' = [WithDirs(fs, Ancestors(rcall.path)) EXCEPT
                                   ![rcall.path].svn = Some(rcall.src)]
                      /\ Step("done")
                 ELSE UNCHANGED fs /\ Throw("SvnException")
    /\ UNCHANGED <<repoFrame, rcall, past, subTodo, subRemote>>

\* the call has ended; the caller may call again
CheckoutEnded ==
    /\ rpc = "done"
    /\ past' = Append(past, [call |-> rcall, outcome |-> outcome, cmds |-> cmds,
                             fs |-> fs])
    /\ rpc' = "idle"
    /\ UNCHANGED <<repoFrame, fs, outcome, rcall, cmds, subTodo, subRemote>>

\* the tags a caller may ask for, in the remote or not
RepoTagPool == {t \in Range(GitTagPool) : ~StartsWith(t, S_Studio)}

\* the library tag path a caller checks out
RepoSvnUrls == {SVN_BASE_URL \o <<"/">> \o S_tags \o <<"/">> \o SvnTagPool[1] \o <<"/">>}

\* what a submodule's remote may hold
SubmoduleRemotes == [master : BOOLEAN, tags : {{}, RepoTagPool}]

RepoStart ==
    /\ remote \in {r \in Remotes : DOMAIN r.svn = {}}
    /\ ResolveInit
    /\ MemoInit
    /\ args = NoArgs
    /\ pc = "idle"
    /\ cur = None
    /\ todo = {}
    /\ fs \in FsPool
    /\ log = <<>>
    /\ rcall = NoRepoCall
    /\ rpc = "idle"
    /\ cmds = <<>>
    /\ past = <<>>
    /\ subTodo = <<>>
    /\ subRemote \in [Range(SubmodulePool) -> SubmoduleRemotes]

RepoNext ==
    \/ \E tag \in RepoTagPool \cup {None} : CallGitCheckout(tag, S_w)
    \/ GitOpen
    \/ GitClone
    \/ GitMaster
    \/ GitPull
    \/ GitTag
    \/ GitSubmoduleUpdate
    \/ SubMaster
    \/ SubPull
    \/ SubTag
    \/ \E url \in RepoSvnUrls : CallSvnCheckout(url, S_w)
    \/ SvnCheckout
    \/ CheckoutEnded

SpecRepo == RepoStart /\ [][RepoNext]_vars

----------------------------------------------------------------------------
(* checkout_version called again on the machine the call before left *)

\* the call is over; `past` keeps what it was asked, how it ended and the
\* checkouts it invoked, and the machine stays as the call left it
CheckoutVersionOver ==
    /\ op = "checkout_version"
    /\ pc = "done"
    /\ past' = Append(past, [call |-> args, outcome |-> outcome, cmds |-> log,
                             fs |-> fs])
    /\ op' = "none"
    /\ net' = "up"
    /\ outcome' = "none"
    /\ matched' = <<>>
    /\ args' = NoArgs
    /\ pc' = "idle"
    /\ cur' = None
    /\ log' = <<>>
    /\ UNCHANGED <<remote, caller, compatible, memoVars, todo, fs,
                   rcall, rpc, cmds, subTodo, subRemote>>

\* the remotes of the repeated calls: version 2.80 with one side or both
AgainStart ==
    /\ remote \in {r \in Remotes :
                     /\ r.git \subseteq StudioTags \cup {GitTagPool[3]}
                     /\ DOMAIN r.svn \subseteq {SvnTagPool[3]}
                     /\ \A d \in DOMAIN r.svn : r.svn[d] = NoBundles}
    /\ ResolveInit
    /\ MemoInit
    /\ args = NoArgs
    /\ pc = "idle"
    /\ cur = None
    /\ todo = {}
    /\ fs \in FsPool
    /\ log = <<>>
    /\ RepoInit

\* checkout_version called, the calls before it being over
CheckoutVersionAgain(version, _makedirs) ==
    /\ Len(past) < MaxCheckouts
    /\ CheckoutVersion(S_w, version, _makedirs)

AgainNext ==
    \/ \E version \in VersionPool, _makedirs \in BOOLEAN :
          CheckoutVersionAgain(version, _makedirs)
    \/ CheckoutVersionMkdir
    \/ CheckoutVersionGit
    \/ CheckoutVersionSvn
    \/ CheckoutVersionOver

SpecAgain == AgainStart /\ [][AgainNext]_vars

----------------------------------------------------------------------------
(* The commands of a build: get_configure_commands, get_build_commands and
   get_make_commands (src/bpybuild/make.py) *)

S_VisualStudio == <<"V","i","s","u","a","l"," ","S","t","u","d","i","o">>

S_G == <<"-","G">>

S_cmake == <<"c","m","a","k","e">>

S_make == <<"m","a","k","e">>

S_C == <<"-","C">>

S_update == <<"u","p","d","a","t","e">>

S_install == <<"i","n","s","t","a","l","l">>

S_src == <<"/","s","r","c">>

S_build == <<"/","b","u","i","l","d">>

S_optix == <<"/","o","p","t","i","x">>

\* str(n) of a natural number
RECURSIVE Decimal(_)
Decimal(n) ==
    IF n < 10 THEN <<DigitChars[n + 1]>>
    ELSE Decimal(n \div 10) \o <<DigitChars[(n % 10) + 1]>>

\* what cmakegenerators.get_generators() may hold: a generator is a name and
\* the options cmake --help lists for it
VS14 ==
    [name |-> <<"V","i","s","u","a","l"," ","S","t","u","d","i","o"," ","1","4"," ","2","0","1","5">>,
     options |-> << <<"V","i","s","u","a","l"," ","S","t","u","d","i","o"," ","1","4"," ","2","0","1","5">>,
                    <<"V","i","s","u","a","l"," ","S","t","u","d","i","o"," ","1","4"," ","2","0","1","5"," ","W","i","n","6","4">>,
                    <<"V","i","s","u","a","l"," ","S","t","u","d","i","o"," ","1","4"," ","2","0","1","5"," ","A","R","M">> >>]

VS16 ==
    [name |-> <<"V","i","s","u","a","l"," ","S","t","u","d","i","o"," ","1","6"," ","2","0","1","9">>,
     options |-> << <<"V","i","s","u","a","l"," ","S","t","u","d","i","o"," ","1","6"," ","2","0","1","9">> >>]

NMake ==
    [name |-> <<"N","M","a","k","e"," ","M","a","k","e","f","i","l","e","s">>,
     options |-> << <<"N","M","a","k","e"," ","M","a","k","e","f","i","l","e","s">> >>]

GeneratorPool == {VS14, VS16, NMake}

\* the most generators a host has
MaxGenerators == 2

\* the lists of up to MaxGenerators generators, none twice
GeneratorLists ==
    UNION {{g \in [1..n -> GeneratorPool] : \A i, j \in 1..n : g[i] = g[j] => i = j} :
              n \in 0..MaxGenerators}

\* platform.system(), BITNESS, sys.version_info[:2] and the generators of
\* the host
MakeHosts ==
    [system : {OS_Windows, OS_Linux, OS_Darwin}, bitness : {Bits32, Bits64},
     version_info : {<<3, 7>>}, generators : GeneratorLists]

\* a function returns its commands or raises
Commands(commands) == [raised |-> "none", commands |-> commands]

Raised(error) == [raised |-> error, commands |-> <<>>]

\* the arguments the host's system adds to the cmake command
os_configure_args(host) ==
    IF host.system = OS_Windows
    THEN LET generators == SelectSeq(host.generators,
                               LAMBDA generator : StartsWith(generator.name, S_VisualStudio))
             filtered_generators == SelectSeq(generators,
                               LAMBDA generator : Contains(Casefold(generator.name),
                                                           Casefold(S_VisualStudio)))
         IN  IF Len(generators) = 0 THEN Raised("Exception")
             ELSE IF Len(filtered_generators) > 0
             THEN IF host.bitness = Bits64
                  THEN LET filtered_generator_options ==
                               SelectSeq(filtered_generators[1].options,
                                   LAMBDA option : Contains(Casefold(option), Casefold(S_64)))
                       IN  IF Len(filtered_generator_options) > 0
                           THEN Commands(<<S_G, filtered_generator_options[1]>>)
                           ELSE Raised("Exception")
                  ELSE LET options == filtered_generators[1].options
                       IN  IF options = <<>> THEN Raised("IndexError")
                           ELSE Commands(<<S_G, options[Len(options)]>>)
             ELSE Raised("Exception")
    ELSE IF host.system = OS_Linux
    THEN Commands(<< <<"-","D","W","I","T","H","_","A","U","D","A","S","P","A","C","E","=","O","F","F">> >>)
    ELSE IF host.system = OS_Darwin
    THEN Commands(<< <<"-","D","W","I","T","H","_","O","P","E","N","M","P","=","O","F","F">>,
                     <<"-","D","W","I","T","H","_","A","U","D","A","S","P","A","C","E","=","O","F","F">> >>)
    ELSE Commands(<<>>)

\* the cmake command of the configuration
cmake_configure(host, source, destination, with_cuda, with_optix, optix_sdk_path, os_args) ==
    << S_cmake,
       <<"-","D","W","I","T","H","_","P","L","A","Y","E","R","=","O","F","F">>,
       <<"-","D","W","I","T","H","_","P","Y","T","H","O","N","_","I","N","S","T","A","L","L","=","O","F","F">>,
       <<"-","D","W","I","T","H","_","P","Y","T","H","O","N","_","M","O","D","U","L","E","=","O","N">>,
       <<"-","D","P","Y","T","H","O","N","_","V","E","R","S","I","O","N","=">> \o Decimal(host.version_info[1])
           \o <<".">> \o Decimal(host.version_info[2]),
       IF with_cuda THEN <<"-","D","W","I","T","H","_","C","Y","C","L","E","S","_","C","U","D","A","_","B","I","N","A","R","I","E","S","=","O","N">> ELSE <<>>,
       IF with_optix THEN <<"-","D","W","I","T","H","_","C","Y","C","L","E","S","_","D","E","V","I","C","E","_","O","P","T","I","X","=","O","N">> ELSE <<>>,
       IF optix_sdk_path # None
       THEN <<"-","D","O","P","T","I","X","_","R","O","O","T","_","D","I","R","=">> \o optix_sdk_path[1] ELSE <<>> >>
    \o os_args
    \o << <<"-","S">> \o source, <<"-","B">> \o destination >>

\* get_configure_commands; the bitness it is given, or BITNESS in its place,
\* is bound to the local name and read by no statement after
get_configure_commands(host, source, destination, bitness, with_cuda, with_optix, optix_sdk_path) ==
    LET _bitness == IF bitness = None THEN host.bitness ELSE bitness[1]
        os_args == os_configure_args(host)
        update == IF host.system # OS_Windows
                  THEN << <<S_make, S_C, source, S_update>> >> ELSE <<>>
        install_deps == IF host.system = OS_Linux
                        THEN << << PathJoin(PathJoin(PathJoin(source,
                                       <<"b","u","i","l","d","_","f","i","l","e","s">>),
                                       <<"b","u","i","l","d","_","e","n","v","i","r","o","n","m","e","n","t">>),
                                       <<"i","n","s","t","a","l","l","_","d","e","p","s",".","s","h">>) >> >>
                        ELSE <<>>
    IN  IF os_args.raised # "none" THEN os_args
        ELSE Commands(update \o install_deps
                      \o << cmake_configure(host, source, destination, with_cuda,
                                            with_optix, optix_sdk_path, os_args.commands) >>)

\* get_build_commands
get_build_commands(host, location, is_release) ==
    IF host.system = OS_Windows
    THEN Commands(<< << S_cmake, <<"-","-","b","u","i","l","d">>, location,
                        <<"-","-","t","a","r","g","e","t">>, <<"I","N","S","T","A","L","L">>, <<"-","-","c","o","n","f","i","g">>,
                        IF is_release THEN <<"R","e","l","e","a","s","e">> ELSE <<"D","e","b","u","g">> >> >>)
    ELSE Commands(<< <<S_make, S_C, location, S_install>> >>)

\* get_make_commands
get_make_commands(host, source_location, build_location, bitness, is_release, with_cuda, with_optix, optix_sdk_path) ==
    LET location == IF build_location # None THEN build_location[1] ELSE source_location
        configure == get_configure_commands(host, source_location, location, bitness,
                                            with_cuda, with_optix, optix_sdk_path)
        build == get_build_commands(host, location, is_release)
    IN  IF configure.raised # "none" THEN configure
        ELSE Commands(configure.commands \o build.commands)

\* the bitness a caller may pass
BitnessArgs == {None, Some(Bits32), Some(Bits64)}

\* a function of make.py, called, returns or raises
MakeCalled(name, arguments, result) ==
    /\ op' = name
    /\ args' = arguments
    /\ outcome' = IF result.raised = "none" THEN "returned" ELSE result.raised
    /\ cmds' = result.commands
    /\ UNCHANGED <<remote, net, caller, matched, compatible, memoVars,
                   pc, cur, todo, fs, log, rcall, rpc, past, subTodo, subRemote>>

GetConfigureCommands ==
    /\ op = "none"
    /\ \E bitness \in BitnessArgs, with_cuda \in BOOLEAN, with_optix \in BOOLEAN,
          optix_sdk_path \in {None, Some(S_optix)} :
           MakeCalled("get_configure_commands",
                      [source |-> S_src, destination |-> S_build, bitness |-> bitness,
                       with_cuda |-> with_cuda, with_optix |-> with_optix,
                       optix_sdk_path |-> optix_sdk_path],
                      get_configure_commands(caller, S_src, S_build, bitness, with_cuda,
                                             with_optix, optix_sdk_path))

GetBuildCommands ==
    /\ op = "none"
    /\ \E is_release \in BOOLEAN :
           MakeCalled("get_build_commands",
                      [location |-> S_build, is_release |-> is_release],
                      get_build_commands(caller, S_build, is_release))

GetMakeCommands ==
    /\ op = "none"
    /\ \E build_location \in {None, Some(S_build)}, bitness \in BitnessArgs,
          is_release \in BOOLEAN, with_cuda \in BOOLEAN :
           MakeCalled("get_make_commands",
                      [source |-> S_src, destination |-> build_location, bitness |-> bitness,
                       is_release |-> is_release, with_cuda |-> with_cuda,
                       with_optix |-> FALSE, optix_sdk_path |-> None],
                      get_make_commands(caller, S_src, build_location, bitness, is_release,
                                        with_cuda, FALSE, None))

MakeStart ==
    /\ remote = [git |-> StudioTags, svn |-> <<>>]
    /\ op = "none" /\ net = "up" /\ outcome = "none"
    /\ matched = <<>> /\ compatible = <<>>
    /\ caller \in MakeHosts
    /\ MemoInit
    /\ CheckoutInit
    /\ RepoInit

MakeNext == GetConfigureCommands \/ GetBuildCommands \/ GetMakeCommands

SpecMake == MakeStart /\ [][MakeNext]_vars

----------------------------------------------------------------------------
(* Properties of the resolution *)

Returned(o) == op = o /\ outcome = "returned"

\* the release tags BlenderGit.tags lists
ListedGitTags == {tag \in remote.git : ~StartsWith(tag, S_Studio)}

\* the path BlenderSvn.tags lists for a directory of /tags
TagUrl(d) == SVN_BASE_URL \o <<"/">> \o S_tags \o <<"/">> \o d \o <<"/">>

\* the tag paths BlenderSvn.tags lists
ListedSvnUrls == {TagUrl(d) : d \in DOMAIN remote.svn}

\* the normalized version of every tag a remote may hold
NormalizedGit == [tag \in Range(GitTagPool) |-> parse_version(tag)]

NormalizedSvn ==
    [url \in {TagUrl(d) : d \in Range(SvnTagPool)} |-> BlenderSvn(url).version]

GitHas(v) == \E tag \in ListedGitTags : NormalizedGit[tag] = v

SvnHas(v) == \E url \in ListedSvnUrls : NormalizedSvn[url] = v

RemoteVersions ==
    {NormalizedGit[tag] : tag \in ListedGitTags}
    \cup {NormalizedSvn[url] : url \in ListedSvnUrls}

\* the three conditions on one platform descriptor, for the caller
Satisfies(_platform) ==
    /\ _platform.os_name = None \/ _platform.os_name[1] = caller.system
    /\ _platform.bitness = None \/ _platform.bitness[1] = caller.bitness
    /\ caller.version_info \in Range(python_versions(remote.svn, _platform))

\* C1 as stated: a version is a key of the result of get_compatible_sources
\* iff both repositories have it and one of its platform descriptors, of any
\* of its LibraryRepo sources, passes the OS, bitness and runtime conditions.
C1_AnyDescriptorOfVersion ==
    Returned("get_compatible_sources") =>
        \A v \in RemoteVersions \cup DOMAIN compatible :
            v \in DOMAIN compatible <=>
                /\ GitHas(v) /\ SvnHas(v)
                /\ \E _svn \in Range(matched[v][2]) :
                     \E _platform \in Range(get_platforms(remote.svn, _svn.url)) :
                        Satisfies(_platform)

\* What the code does where C1 fails: a version is a key of the result iff
\* both repositories have it and one of the platform descriptors of its
\* first-listed LibraryRepo source passes the three conditions.
FirstLibrarySourceDecides ==
    Returned("get_compatible_sources") =>
        \A v \in RemoteVersions \cup DOMAIN compatible :
            v \in DOMAIN compatible <=>
                /\ GitHas(v) /\ SvnHas(v)
                /\ \E _platform \in Range(get_platforms(remote.svn, matched[v][2][1].url)) :
                      Satisfies(_platform)

\* C2: a version only one repository has a tag for is no key of the result of
\* get_compatible_sources, and is a key of the index of get_matched_versions
\* with the missing side an empty list.
C2_OneSidedVersionExcluded ==
    (Returned("get_matched_versions") \/ Returned("get_compatible_sources")) =>
        \A v \in RemoteVersions :
            GitHas(v) # SvnHas(v) =>
                /\ v \in DOMAIN matched
                /\ GitHas(v) => matched[v][1] # <<>> /\ matched[v][2] = <<>>
                /\ SvnHas(v) => matched[v][1] = <<>> /\ matched[v][2] # <<>>
                /\ Returned("get_compatible_sources") => v \notin DOMAIN compatible

\* a resolution that left out a version of the library remote alone whose
\* platforms fit the caller, and returned another version
C2_Witness ==
    /\ Returned("get_compatible_sources")
    /\ DOMAIN compatible # {}
    /\ \E v \in RemoteVersions :
          /\ SvnHas(v) /\ ~GitHas(v)
          /\ \E _platform \in Range(get_platforms(remote.svn, matched[v][2][1].url)) :
                Satisfies(_platform)

\* C3: get_matched_versions joins by normalized version: a CodeRepo source
\* and a LibraryRepo source share an entry iff their normalized versions are
\* equal, every listed tag is in exactly one entry, the one keyed by its
\* normalized version, and no entry has both sides empty.
C3_JoinByNormalizedVersion ==
    (Returned("get_matched_versions") \/ Returned("get_compatible_sources")) =>
        /\ \A v, w \in DOMAIN matched :
              \A _git \in Range(matched[v][1]), _svn \in Range(matched[w][2]) :
                  v = w <=> NormalizedGit[_git.tag] = NormalizedSvn[_svn.url]
        /\ \A tag \in ListedGitTags :
              /\ {v \in DOMAIN matched : \E _git \in Range(matched[v][1]) : _git.tag = tag}
                    = {NormalizedGit[tag]}
              /\ Cardinality({i \in DOMAIN matched[NormalizedGit[tag]][1] :
                                 matched[NormalizedGit[tag]][1][i].tag = tag}) = 1
        /\ \A url \in ListedSvnUrls :
              /\ {v \in DOMAIN matched : \E _svn \in Range(matched[v][2]) : _svn.url = url}
                    = {NormalizedSvn[url]}
              /\ Cardinality({i \in DOMAIN matched[NormalizedSvn[url]][2] :
                                 matched[NormalizedSvn[url]][2][i].url = url}) = 1
        /\ \A v \in DOMAIN matched : matched[v][1] # <<>> \/ matched[v][2] # <<>>

\* an index with an entry of both sides, whose tags differ as strings, and an
\* entry of the library remote alone
C3_Witness ==
    /\ Returned("get_matched_versions")
    /\ \E v \in DOMAIN matched : matched[v][1] # <<>> /\ Len(matched[v][2]) >= 2
    /\ \E w \in DOMAIN matched : matched[w][1] = <<>> /\ matched[w][2] # <<>>

\* the listing of lib fails for the LibraryRepo source consulted for v
LibListingFails(v) ==
    ~SvnListExtended(remote.svn, matched[v][2][1].url, S_lib).ok

\* the listing of python/lib fails for a platform
PyListingFails(_platform) ==
    ~SvnListExtended(remote.svn, _platform.url, S_python \o <<"/">> \o S_lib).ok

\* the platforms of the LibraryRepo source consulted for v
PlatformsOf(v) == Range(get_platforms(remote.svn, matched[v][2][1].url))

----------------------------------------------------------------------------
(* Properties of the platform descriptors *)

\* C5 as stated: whatever the calls of python_versions on one platform
\* descriptor, at most one listing of python/lib is made for it.
C5_AtMostOneListing ==
    \A i \in DOMAIN pyListings : pyListings[i] <= 1

----------------------------------------------------------------------------
(* Properties of the checkouts *)

\* the version the running call is at has a tag in the code remote
CurHasGit == cur # None /\ GitHas(cur[1])

\* the version the running call is at has a tag in the library remote
CurHasSvn == cur # None /\ SvnHas(cur[1])

\* C6: checkout_version tests the requested version against the index of
\* every version either remote has a tag of; a version in it goes on to the
\* making of the directory, and a version that is not in it ends the call
\* with VersionNotFoundError at once, the directories as they were and no
\* checkout invoked.
C6_AbsentVersionRaisesBeforeAnyEffect ==
    [][ (op = "none" /\ op' = "checkout_version" /\ net' = "up") =>
           IF parse_version(args'.version) \in RemoteVersions
           THEN pc' = "mkdir" /\ outcome' # "VersionNotFoundError"
           ELSE /\ pc' = "done"
                /\ outcome' = "VersionNotFoundError"
                /\ fs' = fs
                /\ log' = <<>>
      ]_vars

C6_Witness ==
    /\ op = "checkout_version"
    /\ outcome = "VersionNotFoundError"
    /\ args.makedirs
    /\ args.path \notin DOMAIN fs
    /\ RemoteVersions # {}

\* C7: in checkout_version of a version with both sides the first checkout
\* invoked is the code checkout, the library checkout is invoked second and
\* only when the code checkout ended well, it is invoked whenever the code
\* checkout ended well, and both are given the path of the call.
C7_CodeThenLibrarySamePath ==
    (op = "checkout_version" /\ CurHasGit /\ CurHasSvn) =>
       /\ Len(log) <= 2
       /\ \A i \in DOMAIN log :
             /\ log[i].path = args.path
             /\ log[i].call = (IF i = 1 THEN "BlenderGit.checkout"
                                        ELSE "BlenderSvn.checkout")
       /\ Len(log) = 2 => log[1].result = "ok"
       /\ (pc = "done" /\ Len(log) >= 1 /\ log[1].result = "ok") => Len(log) = 2

C7_Witness ==
    /\ op = "checkout_version"
    /\ pc = "done"
    /\ outcome = "returned"
    /\ Len(log) = 2
    /\ log[2].call = "BlenderSvn.checkout"
    /\ log[2].result = "ok"

\* C8 as stated: checkout_version of a version with a code side and no
\* library side, once its code checkout has ended well, returns without
\* error with that one checkout invoked.
C8_CodeOnlyVersionReturns ==
    (/\ op = "checkout_version"
     /\ pc = "done"
     /\ CurHasGit
     /\ ~CurHasSvn
     /\ Len(log) >= 1
     /\ log[1].result = "ok") =>
        outcome = "returned" /\ Len(log) = 1

\* C9 as stated: when checkout_all has ended, whatever ended it, the loop has
\* taken every version of the index.
C9_EveryVersionAttempted ==
    (op = "checkout_all" /\ pc = "done" /\ net = "up") => todo = {}

\* C10 as stated: every checkout that checkout_all invokes for a version is
\* given the subdirectory of the path of the call that str(version) names.
C10_CheckoutsIntoVersionSubdirectory ==
    op = "checkout_all" =>
       \A i \in DOMAIN log :
          log[i].path = PathJoin(args.path, VersionStr(log[i].version))

\* C11: checkout_version makes the target path before any checkout is
\* invoked.  With makedirs the path and every missing directory above it are
\* there afterwards, an existing path is no error, and the call goes on to
\* the code checkout; without makedirs a missing parent ends the call with
\* FileNotFoundError, nothing made and no checkout invoked, and otherwise the
\* path alone is made.  What the directories held is left as it was.
C11_TargetPathMadeFirst ==
    [][ (op = "checkout_version" /\ pc = "mkdir") =>
           /\ log = <<>> /\ log' = <<>>
           /\ \A q \in DOMAIN fs : q \in DOMAIN fs' /\ fs'[q] = fs[q]
           /\ IF args.makedirs
              THEN /\ pc' = "git"
                   /\ DOMAIN fs' = DOMAIN fs \cup Ancestors(args.path)
              ELSE IF Dirname(args.path) \notin DOMAIN fs
              THEN /\ pc' = "done"
                   /\ outcome' = "FileNotFoundError"
                   /\ fs' = fs
              ELSE args.path \notin DOMAIN fs =>
                      /\ pc' = "git"
                      /\ DOMAIN fs' = DOMAIN fs \cup {args.path}
      ]_vars

\* a call without makedirs that ended on the missing parent of its path
C11_Witness ==
    /\ op = "checkout_version"
    /\ pc = "done"
    /\ ~args.makedirs
    /\ outcome = "FileNotFoundError"
    /\ Dirname(args.path) \notin DOMAIN fs
    /\ log = <<>>

----------------------------------------------------------------------------
(* Properties of BlenderGit.checkout and BlenderSvn.checkout *)

\* the path holds a git working copy
HoldsGit(d, path) == path \in DOMAIN d /\ d[path].git # None

Last(q) == q[Len(q)]

\* the commands of a call that did not end well
Failed(q) == {i \in DOMAIN q : q[i].result # "ok"}

\* C12: checkout is idempotent.  A clone is issued only when the path holds
\* no git working copy; and a call that repeats the call before it, which
\* returned, issues no clone, raises nothing unless the remote does not
\* answer, and when it returns leaves the working copies as that call left
\* them.
C12_CheckoutIdempotent ==
    [][ /\ (Len(cmds') > Len(cmds) /\ Last(cmds').cmd = "clone") =>
               ~HoldsGit(fs, rcall.path)
        /\ \A k \in 2..Len(past') :
              (past'[k].call = past'[k - 1].call /\ past'[k - 1].outcome = "returned") =>
                 /\ \A i \in DOMAIN past'[k].cmds : past'[k].cmds[i].cmd # "clone"
                 /\ past'[k].outcome # "returned" =>
                       Last(past'[k].cmds).result = "unreachable"
                 /\ past'[k].outcome = "returned" => past'[k].fs = past'[k - 1].fs
      ]_vars

\* a git checkout that cloned and returned, called again and returned
C12_Witness ==
    /\ Len(past) = 2
    /\ past[1].call.kind = "git"
    /\ past[2].call = past[1].call
    /\ past[1].outcome = "returned"
    /\ past[2].outcome = "returned"
    /\ \E i \in DOMAIN past[1].cmds : past[1].cmds[i].cmd = "clone"

\* C13 as stated: BlenderGit.checkout of a tag the remote does not have, the
\* remote answering every command, ends with VersionNotFoundError and has
\* issued no clone, pull or tag checkout.
C13_MissingTagFoundBeforeAnyCommand ==
    (/\ rcall.kind = "git"
     /\ rpc = "done"
     /\ rcall.src # None
     /\ rcall.src \notin remote.git
     /\ \A i \in DOMAIN cmds : cmds[i].result # "unreachable") =>
        /\ outcome = "VersionNotFoundError"
        /\ \A i \in DOMAIN cmds :
              cmds[i].cmd \notin {"clone", "pull", "checkout tag"}

\* the call ended on a command the remote did not answer
EndedUnreachable ==
    rpc = "done" /\ cmds # <<>> /\ Last(cmds).result = "unreachable"

\* no command of the call was issued twice on the same repository
EachCommandOnce ==
    \A i, j \in DOMAIN cmds :
        (cmds[i].cmd = cmds[j].cmd /\ cmds[i].on = cmds[j].on) => i = j

SubCommands == {i \in DOMAIN cmds : cmds[i].on # rcall.path}

\* the call has come to the loop over the submodules
InSubmoduleLoop ==
    /\ rcall.kind = "git"
    /\ \E i \in DOMAIN cmds : cmds[i].cmd = "submodule update" /\ cmds[i].result = "ok"

\* every submodule has had its commands: master, pull and, a tag being set,
\* the tag checkout
EverySubmoduleProcessed ==
    \A n \in DOMAIN SubmodulePool :
        \A c \in {"checkout master", "pull"}
                \cup (IF rcall.src = None THEN {} ELSE {"checkout tag"}) :
            \E i \in SubCommands :
                cmds[i].cmd = c /\ cmds[i].on = PathJoin(rcall.path, SubmodulePool[n])

\* C15 as stated: once BlenderGit.checkout has come to its submodules, no
\* failure of a command on a submodule fails the call: it returns, with every
\* submodule processed.
C15_SubmoduleFailuresTolerated ==
    (InSubmoduleLoop /\ rpc = "done") =>
        outcome = "returned" /\ EverySubmoduleProcessed

\* C15 amended: a failure of the checkout of the release tag in a submodule
\* does not fail the call and the submodules after it are still processed: a
\* call that has come to its submodules and in which no switch to master and
\* no pull of a submodule failed returns with every submodule processed.  A
\* failed switch to master or pull of a submodule is the last command of the
\* call, which ends with an error.
C15_SubmoduleTagFailureTolerated ==
    /\ (/\ InSubmoduleLoop
        /\ rpc = "done"
        /\ \A i \in SubCommands : cmds[i].result # "ok" => cmds[i].cmd = "checkout tag") =>
           outcome = "returned" /\ EverySubmoduleProcessed
    /\ rcall.kind = "git" =>
          \A i \in SubCommands :
              (cmds[i].result # "ok" /\ cmds[i].cmd # "checkout tag") =>
                  /\ i = Len(cmds)
                  /\ rpc \in {"done", "idle"}
                  /\ outcome \notin {"none", "returned"}

\* a call that returned although the tag checkout failed in the first
\* submodule, the second submodule having had its commands after it
C15_Witness ==
    /\ InSubmoduleLoop
    /\ rpc = "done"
    /\ outcome = "returned"
    /\ \E i \in SubCommands :
          /\ cmds[i].cmd = "checkout tag"
          /\ cmds[i].result = "no_such_ref"
          /\ cmds[i].on = PathJoin(rcall.path, SubmodulePool[1])
          /\ \E j \in SubCommands : j > i /\ cmds[j].cmd = "pull"

----------------------------------------------------------------------------
(* Properties of the platform descriptors *)

\* the lib listing of the object's tag has been read and its descriptors made
Constructed == svnObj # None /\ svnObj[1]._platforms # None

\* the bundles the remote holds under the tag
Bundles == remote.svn[PlatformTag].bundles

\* the descriptors made of them
Descriptors == svnObj[1]._platforms[1]

\* the name begins with the lower-case word, in whatever letter case
BeginsAnyCase(name, word) ==
    /\ Len(name) >= Len(word)
    /\ \A i \in DOMAIN word : LowerChar(name[i]) = word[i]

\* the OS family a bundle name stands for
FamilyOf(name) ==
    IF BeginsAnyCase(name, S_android) THEN Some(OS_Android)
    ELSE IF BeginsAnyCase(name, S_darwin) THEN Some(OS_Darwin)
    ELSE IF BeginsAnyCase(name, S_linux) THEN Some(OS_Linux)
    ELSE IF BeginsAnyCase(name, S_win) THEN Some(OS_Windows)
    ELSE None

S_freebsd_12 == <<"f","r","e","e","b","s","d","-","1","2">>

\* C16: a descriptor is made of every bundle name (none raises); its OS
\* family is the one its name begins with, in whatever letter case, android,
\* darwin, linux or win; of any other name the family and every other
\* attribute are unset.
C16_DescriptorOfAnyName ==
    Constructed =>
        /\ Len(Descriptors) = Len(Bundles)
        /\ \A i \in DOMAIN Bundles :
              /\ Descriptors[i].svn_name = Bundles[i].name
              /\ Descriptors[i].os_name = FamilyOf(Bundles[i].name)
              /\ FamilyOf(Bundles[i].name) = None =>
                    /\ Descriptors[i].os_version = None
                    /\ Descriptors[i].processor = None
                    /\ Descriptors[i].bitness = None
                    /\ Descriptors[i].build_environment = None

\* the descriptor of freebsd-12 has been made, with no OS family
C16_Witness ==
    /\ Constructed
    /\ Bundles[1].name = S_freebsd_12
    /\ Len(Descriptors) = 1
    /\ Descriptors[1].os_name = None

\* the places of the name where "vc" stands, in whatever letter case
VcPlaces(name) ==
    {i \in 1..(Len(name) - 1) : LowerChar(name[i]) = "v" /\ LowerChar(name[i + 1]) = "c"}

\* "64" occurs in the name
Has64(name) == \E i \in 1..(Len(name) - 1) : name[i] = "6" /\ name[i + 1] = "4"

\* C17 as stated: the descriptor of a name beginning with win, in whatever
\* letter case, has family Windows, bitness 64 if "64" occurs in the name and
\* 32 otherwise, and for toolchain "vc" followed by what follows an
\* occurrence of "vc", in whatever letter case, in the name; no toolchain
\* when "vc" does not occur.
C17_WindowsBitnessAndToolchain ==
    Constructed =>
        \A i \in DOMAIN Bundles :
            LET name == Bundles[i].name
                made == Descriptors[i]
            IN  BeginsAnyCase(name, S_win) =>
                   /\ made.os_name = Some(OS_Windows)
                   /\ made.bitness = IF Has64(name) THEN Some(Bits64) ELSE Some(Bits32)
                   /\ IF VcPlaces(name) = {}
                      THEN made.build_environment = None
                      ELSE \E at \in VcPlaces(name) :
                              made.build_environment = Some(S_vc \o From(name, at + 2))

\* the k-th of the places in `cuts`, from the left
CutAt(cuts, k) == CHOOSE c \in cuts : Cardinality({d \in cuts : d < c}) = k - 1

\* the segments of the name between its '.' and '-' characters
Pieces(name) ==
    LET cuts == {0, Len(name) + 1} \cup {i \in DOMAIN name : name[i] \in {".", "-"}}
    IN  [k \in 1..(Cardinality(cuts) - 1) |->
            SubSeq(name, CutAt(cuts, k) + 1, CutAt(cuts, k + 1) - 1)]

\* the segments with a dot between each two
RECURSIVE Dotted(_)
Dotted(segs) ==
    IF Len(segs) = 0 THEN <<>>
    ELSE IF Len(segs) = 1 THEN segs[1]
    ELSE Dotted(SubSeq(segs, 1, Len(segs) - 1)) \o <<".">> \o segs[Len(segs)]

\* C18: the descriptor of a name beginning with darwin has family Darwin;
\* when the name has at least 4 segments between its '.' and '-' characters
\* its version is the version read from the dot-join of the segments but the
\* first and the last, and its processor the last segment; with fewer
\* segments it has neither.
C18_DarwinVersionAndProcessor ==
    Constructed =>
        \A i \in DOMAIN Bundles :
            LET name == Bundles[i].name
                made == Descriptors[i]
                segs == Pieces(name)
            IN  BeginsAnyCase(name, S_darwin) =>
                   /\ made.os_name = Some(OS_Darwin)
                   /\ made.bitness = None
                   /\ made.build_environment = None
                   /\ IF Len(segs) >= 4
                      THEN /\ made.os_version =
                                 Some(parse_version(Dotted(SubSeq(segs, 2, Len(segs) - 1))))
                           /\ made.processor = Some(segs[Len(segs)])
                      ELSE made.os_version = None /\ made.processor = None

\* darwin-10.9-x86_64 has given version 10.9 and processor x86_64
C18_Witness ==
    /\ Constructed
    /\ Bundles[1].name = <<"d","a","r","w","i","n","-","1","0",".","9","-","x","8","6","_","6","4">>
    /\ Descriptors[1].os_version # None
    /\ Descriptors[1].os_version[1].release = <<10, 9>>
    /\ VersionStr(Descriptors[1].os_version[1]) = <<"1","0",".","9">>
    /\ Descriptors[1].processor = Some(<<"x","8","6","_","6","4">>)

----------------------------------------------------------------------------
(* Properties of python_versions *)

\* python_versions has returned on descriptor i
PythonVersionsReturned(i) == Constructed /\ i \in DOMAIN pyReturned /\ pyReturned[i] # None

\* the two digits at place i of the name, an optional dot between them
DigitPairAt(name, i) ==
    /\ i >= 1
    /\ i + 1 <= Len(name)
    /\ IsDigit(name[i])
    /\ \/ IsDigit(name[i + 1])
       \/ name[i + 1] = "." /\ i + 2 <= Len(name) /\ IsDigit(name[i + 2])

\* (major, minor) of the digit pair at place i
PairAt(name, i) ==
    <<DigitVal(name[i]),
      DigitVal(IF name[i + 1] = "." THEN name[i + 2] ELSE name[i + 1])>>

\* the leftmost places of the name that hold a digit pair: anywhere, and
\* right after the word python
AnyPairPlaces(name) == {i \in DOMAIN name : DigitPairAt(name, i)}

PythonPairPlaces(name) ==
    {i \in AnyPairPlaces(name) :
        i > 6 /\ SubSeq(name, i - 6, i - 1) = <<"p","y","t","h","o","n">>}

\* one pair for each file of the listing that has a place in Places(name),
\* in listing order
PairsOf(entries, Places(_)) ==
    LET chosen == SelectSeq(entries,
                            LAMBDA x : x.kind = "file" /\ Places(x.name) # {})
    IN  [k \in DOMAIN chosen |->
            PairAt(chosen[k].name, Min(Places(chosen[k].name)))]

\* C19 as stated: python_versions returns, in listing order, one (major,
\* minor) pair for exactly the files of the python/lib listing whose name
\* holds optional non-digits, one digit, an optional dot and one digit.
C19_PairsOfDigitNames ==
    \A i \in DOMAIN Bundles :
        (PythonVersionsReturned(i) /\ Bundles[i].py.ok) =>
            pyReturned[i] = Some(PairsOf(Bundles[i].py.entries, AnyPairPlaces))

\* C19 amended: python_versions returns, in listing order, one (major, minor)
\* pair for exactly the files of the python/lib listing whose name holds the
\* word python followed at once by one digit, an optional dot and one digit,
\* and nothing for directories or other names.
C19_PairsOfPythonNames ==
    \A i \in DOMAIN Bundles :
        (PythonVersionsReturned(i) /\ Bundles[i].py.ok) =>
            pyReturned[i] = Some(PairsOf(Bundles[i].py.entries, PythonPairPlaces))

\* the listing python3.7, python38, readme.txt, all files, has given
\* [(3,7),(3,8)]
C19_Witness ==
    /\ PythonVersionsReturned(1)
    /\ Bundles[1].py.ok
    /\ Len(Bundles[1].py.entries) = 3
    /\ \A k \in 1..3 : Bundles[1].py.entries[k].kind = "file"
    /\ pyReturned[1] = Some(<< <<3, 7>>, <<3, 8>> >>)

\* C20: python_versions on a descriptor whose python/lib cannot be listed
\* returns the empty list, and the descriptor suits no caller.
C20_MissingPythonLibGivesNone ==
    \A i \in DOMAIN Bundles :
        (PythonVersionsReturned(i) /\ ~Bundles[i].py.ok) =>
            /\ pyReturned[i] = Some(<<>>)
            /\ \A c \in Callers : ~PlatformCompatible(remote.svn, c, Descriptors[i])

\* python_versions has returned on a Windows descriptor without python/lib
C20_Witness ==
    /\ PythonVersionsReturned(1)
    /\ ~Bundles[1].py.ok
    /\ Descriptors[1].os_name = Some(OS_Windows)
    /\ pyReturned[1] = Some(<<>>)

----------------------------------------------------------------------------
(* Properties of the normalized versions *)

S_v == <<"v">>

S_release == <<"-","r","e","l","e","a","s","e">>

S_winfix == <<"-","w","i","n","f","i","x">>

\* the version texts of the tags
VersionTexts ==
    { <<"2",".","8","0">>, <<"2",".","7","8","c">>, <<"2",".","7","4">>,
      <<"2",".","7","4","-","r","c","2">>, <<"2",".","9">> }

\* the text with a dash for every dot
Dashed(x) == [i \in DOMAIN x |-> IF x[i] = "." THEN "-" ELSE x[i]]

\* the names a directory of /tags may give to version text x
Decorated(x) ==
    { S_blender \o <<"-">> \o y \o suffix :
        y \in {x, Dashed(x)}, suffix \in {S_release, S_winfix} }

\* the index has an entry with the git source of the tag and the svn source
\* of the directory
SameEntry(tag, d) ==
    \E v \in DOMAIN matched :
        /\ \E _git \in Range(matched[v][1]) : _git.tag = tag
        /\ \E _svn \in Range(matched[v][2]) : _svn.url = TagUrl(d)

\* C21: the git tag vX and a directory of /tags named blender-X-release or
\* blender-X-winfix, X written with dots or with dashes, have equal
\* normalized versions: get_matched_versions puts the two in one entry.
C21_DecorationStripped ==
    Returned("get_matched_versions") =>
        \A x \in VersionTexts :
            \A d \in Decorated(x) \cap DOMAIN remote.svn :
                (S_v \o x) \in remote.git => SameEntry(S_v \o x, d)

\* v2.80 matched with blender-2-80-release and with blender-2.80-release
C21_Witness ==
    /\ Returned("get_matched_versions")
    /\ SameEntry(<<"v","2",".","8","0">>, <<"b","l","e","n","d","e","r","-","2","-","8","0","-","r","e","l","e","a","s","e">>)
    /\ SameEntry(<<"v","2",".","8","0">>, <<"b","l","e","n","d","e","r","-","2",".","8","0","-","r","e","l","e","a","s","e">>)

\* the key of the entry that holds the git source of the tag
KeyOf(tag) ==
    CHOOSE v \in DOMAIN matched : \E _git \in Range(matched[v][1]) : _git.tag = tag

----------------------------------------------------------------------------
(* Properties of get_platforms *)

\* the names that stand for no platform
NotPlatforms ==
    { <<"b","e","n","c","h","m","a","r","k","s">>, <<"p","a","c","k","a","g","e">>,
      <<"p","y","t","h","o","n">>, <<"t","e","s","t","s">> }

\* the names of the entries of the tag's lib listing, in listing order
LibEntries ==
    LET listing == SvnListExtended(remote.svn, svnObj[1].url, S_lib)
    IN  [k \in DOMAIN listing.entries |-> listing.entries[k].name]

\* C23: get_platforms returns one descriptor for each entry of the lib
\* listing whose name is none of benchmarks, package, python, tests, in
\* listing order, and none for an entry of one of those names.
C23_OneDescriptorPerPlatformEntry ==
    (Constructed /\ remote.svn[PlatformTag].ok) =>
        LET kept == SelectSeq(LibEntries, LAMBDA name : name \notin NotPlatforms)
        IN  /\ Len(Descriptors) = Len(kept)
            /\ \A k \in DOMAIN kept :
                  Descriptors[k].svn_name = kept[k]

\* a listing of package, Tests, python and tests has given the descriptor of
\* Tests alone
C23_Witness ==
    /\ Constructed
    /\ remote.svn[PlatformTag].ok
    /\ Len(LibEntries) = 4
    /\ LibEntries[1] = <<"p","a","c","k","a","g","e">>
    /\ LibEntries[2] = <<"T","e","s","t","s">>
    /\ Len(Descriptors) = 1
    /\ Descriptors[1].svn_name = <<"T","e","s","t","s">>

----------------------------------------------------------------------------
(* Properties of a request for a version no platform of which suits *)

\* the three conditions on one platform descriptor, for caller c
Suits(c, _platform) ==
    /\ _platform.os_name = None \/ _platform.os_name[1] = c.system
    /\ _platform.bitness = None \/ _platform.bitness[1] = c.bitness
    /\ c.version_info \in Range(python_versions(remote.svn, _platform))

\* version v of the index has no platform descriptor that suits caller c
NoPlatformSuits(c, v) ==
    \A _svn \in Range(matched[v][2]) :
        \A _platform \in Range(get_platforms(remote.svn, _svn.url)) :
            ~Suits(c, _platform)

\* C24 as stated: checkout_version of a version that is in the index and has
\* no platform descriptor that suits the caller, whoever the caller is, ends
\* with IncompatiblePlatformError and invokes no checkout.
C24_IncompatibleVersionRefused ==
    (/\ op = "checkout_version"
     /\ pc = "done"
     /\ net = "up"
     /\ cur # None
     /\ cur[1] \in DOMAIN matched
     /\ \A c \in Callers : NoPlatformSuits(c, cur[1])) =>
        outcome = "IncompatiblePlatformError" /\ log = <<>>

----------------------------------------------------------------------------
(* Properties of request after request *)

V_2_80 == parse_version(<<"2",".","8","0">>)

\* the index holds what the remotes hold now: a key for every version of a
\* listed tag, with the sources of the tags listed now
IndexOfRemotesNow ==
    /\ DOMAIN matched = RemoteVersions
    /\ \A v \in DOMAIN matched :
          /\ {_git.tag : _git \in Range(matched[v][1])}
                = {tag \in ListedGitTags : NormalizedGit[tag] = v}
          /\ {_svn.url : _svn \in Range(matched[v][2])}
                = {url \in ListedSvnUrls : NormalizedSvn[url] = v}

\* C25: nothing of a request outlives it.  The index of every call of
\* get_matched_versions, get_compatible_sources, checkout_version and
\* checkout_all is that of the tags the two remotes hold at the call, whatever
\* they held at the call before; the platforms a source of the index keeps
\* are those of the lib listing at the call; and between two requests no
\* index is held.
C25_EveryRequestListsAfresh ==
    /\ (op # "none" /\ net = "up") =>
          /\ IndexOfRemotesNow
          /\ \A v \in DOMAIN matched :
                \A _svn \in Range(matched[v][2]) :
                    _svn._platforms # None =>
                        _svn._platforms[1] = get_platforms(remote.svn, _svn.url)
          /\ (op = "checkout_version" /\ cur[1] \notin RemoteVersions) =>
                outcome = "VersionNotFoundError"
          /\ (op = "checkout_version" /\ cur[1] \in RemoteVersions) => pc = "mkdir"
          /\ op = "checkout_all" => todo = RemoteVersions
    /\ op = "none" => matched = <<>> /\ compatible = <<>>

\* get_matched_versions lists version 2.80 with both sides, the call of
\* get_matched_versions before it having returned an index without it
C25_Witness ==
    /\ Returned("get_matched_versions")
    /\ V_2_80 \in DOMAIN matched
    /\ matched[V_2_80][1] # <<>>
    /\ matched[V_2_80][2] # <<>>
    /\ past # <<>>
    /\ past[1].call = "get_matched_versions"
    /\ past[1].outcome = "returned"
    /\ V_2_80 \notin DOMAIN past[1].index

----------------------------------------------------------------------------
(* The attributes of a descriptor, family by family *)

\* C26: of every descriptor made, the bitness is set, to 32 or 64, iff the
\* family is Windows; the toolchain is set only if the family is Windows; the
\* version and the processor are set only if the family is Darwin.
C26_AttributesByFamily ==
    Constructed =>
        \A i \in DOMAIN Descriptors :
            LET made == Descriptors[i]
            IN  /\ made.bitness # None <=> made.os_name = Some(OS_Windows)
                /\ made.bitness # None => made.bitness[1] \in {32, 64}
                /\ made.build_environment # None => made.os_name = Some(OS_Windows)
                /\ made.os_version # None => made.os_name = Some(OS_Darwin)
                /\ made.processor # None => made.os_name = Some(OS_Darwin)

\* the descriptor of linux_centos7_x86_64, a name with 64 in it, has been
\* made without bitness
C26_Witness ==
    /\ Constructed
    /\ Len(Descriptors) = 1
    /\ Descriptors[1].svn_name = <<"l","i","n","u","x","_","c","e","n","t","o","s","7","_","x","8","6","_","6","4">>
    /\ Descriptors[1].os_name = Some(OS_Linux)
    /\ Descriptors[1].bitness = None

----------------------------------------------------------------------------
(* The order of the commands of BlenderGit.checkout *)

\* a command and the repository it runs on
What(cmd, on) == [cmd |-> cmd, on |-> on]

\* the commands on one repository: master, pull and, a tag being set, the tag
OnRepository(on, tag) ==
    <<What("checkout master", on), What("pull", on)>>
    \o (IF tag = None THEN <<>> ELSE <<What("checkout tag", on)>>)

\* the commands of a whole checkout of `tag` at `path`, a clone first or not
RECURSIVE OnSubmodules(_, _, _)
OnSubmodules(subs, path, tag) ==
    IF subs = <<>> THEN <<>>
    ELSE OnRepository(PathJoin(path, Head(subs)), tag)
         \o OnSubmodules(Tail(subs), path, tag)

WholeCheckout(path, tag, cloned) ==
    (IF cloned THEN <<What("clone", path)>> ELSE <<>>)
    \o OnRepository(path, tag)
    \o <<What("submodule update", path)>>
    \o OnSubmodules(SubmodulePool, path, tag)

\* the commands issued so far
Issued == [i \in DOMAIN cmds |-> What(cmds[i].cmd, cmds[i].on)]

\* C27: the commands of BlenderGit.checkout come in one order: the clone, if
\* the path holds no repository, then master and pull, then the tag if one is
\* set, then the submodule update, then for each submodule master, pull and
\* the tag if one is set.  What a call has issued is a beginning of that
\* list, and all of it when the call returns; with no tag set no tag checkout
\* is in it.
C27_CommandsInFixedOrder ==
    (rcall.kind = "git" /\ cmds # <<>>) =>
        LET whole == WholeCheckout(rcall.path, rcall.src, cmds[1].cmd = "clone")
        IN  /\ Len(Issued) <= Len(whole)
            /\ Issued = SubSeq(whole, 1, Len(Issued))
            /\ (rpc \in {"done", "idle"} /\ outcome = "returned") => Issued = whole
            /\ rcall.src = None =>
                  \A i \in DOMAIN cmds : cmds[i].cmd # "checkout tag"

\* a checkout without a tag that cloned and returned
C27_Witness ==
    /\ rcall.kind = "git"
    /\ rcall.src = None
    /\ rpc = "done"
    /\ outcome = "returned"
    /\ cmds # <<>>
    /\ cmds[1].cmd = "clone"
    /\ Len(cmds) = 4 + 2 * Len(SubmodulePool)

----------------------------------------------------------------------------
(* Properties of checkout_version called twice *)

\* call k of `past` repeats call k - 1, which returned
Repeats(k) ==
    /\ k \in 2..Len(past)
    /\ past[k].call = past[k - 1].call
    /\ past[k - 1].outcome = "returned"

\* the errors of a remote that does not answer
RemoteErrors == {"GitCommandError", "SvnException"}

\* C28 as stated: a call of checkout_version that repeats, with the same
\* path, version and makedirs, a call that returned, fails on nothing but a
\* remote that does not answer, for either value of makedirs; when it returns
\* it has invoked both checkouts on the path and left the working copies as
\* the first call left them.
C28_RepeatableForEitherFlag ==
    \A k \in DOMAIN past :
        Repeats(k) =>
            /\ past[k].outcome \in {"returned"} \cup RemoteErrors
            /\ past[k].outcome = "returned" =>
                  /\ Len(past[k].cmds) = 2
                  /\ past[k].fs = past[k - 1].fs

\* what holds of the code: the same for the calls with makedirs true
RepeatableWithMakedirs ==
    \A k \in DOMAIN past :
        (Repeats(k) /\ past[k].call.makedirs) =>
            /\ past[k].outcome \in {"returned"} \cup RemoteErrors
            /\ past[k].outcome = "returned" =>
                  /\ Len(past[k].cmds) = 2
                  /\ past[k].fs = past[k - 1].fs

----------------------------------------------------------------------------
(* Properties of BlenderSvn.platforms called again *)

\* the object holds a list of platforms, an empty one included
HoldsPlatforms == svnObj # None /\ svnObj[1]._platforms # None

\* C29: whatever the calls of platforms on one BlenderSvn object, lib is
\* listed at most once for it: a call leaves a list on the object, the empty
\* list of a listing that failed or held no platform included, and from then
\* on no step lists lib again or changes the list, so that every call
\* returns the list the first one returned.
C29_PlatformsListedOnce ==
    [][ /\ libListings' <= 1
        /\ platformsCalls' # platformsCalls =>
              /\ HoldsPlatforms'
              /\ libListings' = 1
        /\ HoldsPlatforms =>
              /\ libListings' = libListings
              /\ svnObj'[1]._platforms = svnObj[1]._platforms
      ]_vars

C29_Witness ==
    /\ platformsCalls = 2
    /\ libListings = 1
    /\ HoldsPlatforms
    /\ svnObj[1]._platforms = Some(<<>>)
    /\ ~remote.svn[PlatformTag].ok

----------------------------------------------------------------------------
(* Properties of get_configure_commands on Windows *)

\* a call that configures has ended on a Windows host
ConfiguredOnWindows ==
    /\ op \in {"get_configure_commands", "get_make_commands"}
    /\ caller.system = OS_Windows

\* the Visual Studio generators of the host, in order
VisualStudios ==
    SelectSeq(caller.generators,
              LAMBDA generator : StartsWith(generator.name, S_VisualStudio))

Is64(option) == Contains(Casefold(option), Casefold(S_64))

\* the bitness the call asks for: its argument, BITNESS when it has none
AskedBitness == IF args.bitness = None THEN caller.bitness ELSE args.bitness[1]

\* the generator options that follow a "-G" in the cmake command returned
PassedOptions ==
    {cmds[1][i + 1] : i \in {j \in 1..(Len(cmds[1]) - 1) : cmds[1][j] = S_G}}

\* C30 as stated: on Windows get_configure_commands raises, and returns no
\* command, when the host has no Visual Studio generator or when BITNESS is
\* 64 and the first Visual Studio generator has no option with "64" in it;
\* in every other case it returns, the cmake command holds "-G" followed by
\* one option of that generator, and the option is one of the bitness the
\* call asks for whenever the generator has such an option.
C30_ToolchainByAskedBitness ==
    ConfiguredOnWindows =>
        IF \/ Len(VisualStudios) = 0
           \/ /\ caller.bitness = Bits64
              /\ \A option \in Range(VisualStudios[1].options) : ~Is64(option)
        THEN outcome # "returned" /\ cmds = <<>>
        ELSE /\ outcome = "returned"
             /\ \E option \in Range(VisualStudios[1].options) :
                   /\ PassedOptions = {option}
                   /\ \A other \in Range(VisualStudios[1].options) :
                         (Is64(other) <=> AskedBitness = Bits64) =>
                             (Is64(option) <=> AskedBitness = Bits64)

====
